---- MODULE Spec2Model ----
(***************************************************************************)
(* A model of the pyRevit Foundry toolkit: the patch engine                *)
(* (foundry_core/engine/patch_engine.py), the structural duplicate         *)
(* detector (analyzers/duplicate_analyzer.py), the library-structure       *)
(* proposer (analyzers/lib_structure.py), the extraction engine            *)
(* (analyzers/extract_to_lib.py) and the mode defaults of the tool layer   *)
(* (foundry_mcp/server.py, engine/extension_creator.py).                   *)
(*                                                                         *)
(* Texts are sequences of lines, strings that the code inspects character  *)
(* by character (paths, names) are sequences of one-character strings, and *)
(* the filesystem is a set of directories plus a map from absolute paths   *)
(* to file contents.  No symbolic links exist in the modelled filesystem,  *)
(* so Path.resolve() only normalises "..".                                 *)
(***************************************************************************)
EXTENDS Integers, Sequences, FiniteSets, TLC

VARIABLES
    files,   \* absolute path -> content (a sequence of lines) of every file on disk
    dirs,    \* the set of absolute paths that are directories
    last,    \* the last call: its name, its arguments and what it returned
    prev,    \* the filesystem before the last call: [files, dirs]
    calls    \* how many calls were made

vars == <<files, dirs, last, prev, calls>>

-----------------------------------------------------------------------------
(* Sequences and strings *)

Range(s) == {s[i] : i \in 1..Len(s)}

\* the element of a one-element set.  The({F(x) : x \in {e}}) is F(e), with e
\* worked out once however often F uses x.
The(S) == CHOOSE x \in S : TRUE

\* str.startswith
StartsWith(s, pre) == Len(pre) <= Len(s) /\ SubSeq(s, 1, Len(pre)) = pre

\* Python's `sub in s` on strings
Contains(s, sub) ==
    \E i \in 0..(Len(s) - Len(sub)) : SubSeq(s, i + 1, i + Len(sub)) = sub

RECURSIVE Flatten(_)
Flatten(ss) == IF ss = <<>> THEN <<>> ELSE Head(ss) \o Flatten(Tail(ss))

-----------------------------------------------------------------------------
(* Paths.  A path component is a sequence of characters; an absolute path   *)
(* is the sequence of its components; a relative path string is             *)
(* [abs, parts], abs telling whether it starts with "/".                    *)

DotDot == <<".", ".">>

Rel(parts) == [abs |-> FALSE, parts |-> parts]
Abs(parts) == [abs |-> TRUE, parts |-> parts]

\* The repository root, /w/r (PatchEngine.repo_root, already resolved).
Root == << <<"w">>, <<"r">> >>

\* pathlib's `repo_root / rel_path`: an absolute right operand replaces the left
Join(base, rel) == IF rel.abs THEN rel.parts ELSE base \o rel.parts

RECURSIVE Normalise(_, _)
Normalise(parts, acc) ==
    IF parts = <<>> THEN acc
    ELSE IF Head(parts) = DotDot
         THEN Normalise(Tail(parts),
                        IF acc = <<>> THEN acc ELSE SubSeq(acc, 1, Len(acc) - 1))
         ELSE Normalise(Tail(parts), Append(acc, Head(parts)))

\* Path.resolve()
Resolve(parts) == Normalise(parts, <<>>)

\* str(path) of an absolute path: "/" for the filesystem root, else "/a/b"
PathStr(p) == IF p = <<>> THEN <<"/">> ELSE Flatten([i \in 1..Len(p) |-> <<"/">> \o p[i]])

\* str(rel_path) as the caller wrote it
RelStr(rel) ==
    LET body == Flatten([i \in 1..Len(rel.parts) |->
                            (IF i = 1 THEN <<>> ELSE <<"/">>) \o rel.parts[i]])
    IN  IF rel.abs THEN <<"/">> \o body ELSE body

Parent(p) == IF p = <<>> THEN p ELSE SubSeq(p, 1, Len(p) - 1)

Ancestors(p) == {SubSeq(p, 1, k) : k \in 0..Len(p)}

\* a strict descendant of the repository root
StrictlyInside(p) == Len(p) > Len(Root) /\ SubSeq(p, 1, Len(Root)) = Root

\* the root or anything below it
InsideOrRoot(p) == Len(p) >= Len(Root) /\ SubSeq(p, 1, Len(Root)) = Root

-----------------------------------------------------------------------------
(* Lines of text.  A line is a record [k, n, a, ind, v, m]:                 *)
(*   k   its kind: "def", "assign", "expr", "return", "if", "pass" (any     *)
(*       other statement), "import", "blank", "bad" (no valid syntax),      *)
(*       "raw" (text of a file that is not a script), "deep" (a statement   *)
(*       nested deeper than the parser may be able to follow);              *)
(*   n   the name a "def" defines or an "import" imports, the text of a     *)
(*       "raw" line (characters);                                           *)
(*   a   the number of positional parameters of a "def";                    *)
(*   ind the depth of the block the line stands in;                         *)
(*   v   what tells two lines of the same shape apart: their identifiers    *)
(*       and literals;                                                      *)
(*   m   the dotted module of an "import" ("from m import n").              *)

Line(k, n, a, ind, v, m) == [k |-> k, n |-> n, a |-> a, ind |-> ind, v |-> v, m |-> m]

DefLine(name, nargs, ind) == Line("def", name, nargs, ind, 0, "")
Stmt(k, ind, v)           == Line(k, <<>>, 0, ind, v, "")
ImportLine(mod, name)     == Line("import", name, 0, 0, 0, mod)
RawLine(text)             == Line("raw", text, 0, 0, 0, "")
BlankLine                 == Line("blank", <<>>, 0, 0, 0, "")

\* the values Python's None takes in the model
NoContent == <<Line("None", <<>>, 0, 0, 0, "")>>
NoPath    == [abs |-> FALSE, parts |-> << <<"None">> >>]

-----------------------------------------------------------------------------
(* patch_engine.py *)

\* _make_unified_diff: three header lines (the first two name the path the
\* engine joined, root and rel_path), then every new line marked " " when it
\* occurs anywhere in the old lines and "+" otherwise
MakeUnifiedDiff(rel, old_lines, new_lines) ==
    << [mark |-> "---", line |-> RawLine(PathStr(Join(Root, rel)))],
       [mark |-> "+++", line |-> RawLine(PathStr(Join(Root, rel)))],
       [mark |-> "@@",  line |-> Line("raw", <<>>, Len(old_lines), 0, Len(new_lines), "")] >>
    \o [i \in 1..Len(new_lines) |->
          [mark |-> IF new_lines[i] \in Range(old_lines) THEN " " ELSE "+",
           line |-> new_lines[i]]]

\* the containment test of patch_engine.py: a prefix test on the rendered strings
Containment(rel) ==
    StartsWith(PathStr(Resolve(Join(Root, rel))), PathStr(Root))

\* PatchEngine.create_add_file_patch: [raised, patch]
CreateAddFilePatch(rel, content, risk) ==
    IF ~Containment(rel)
    THEN [raised |-> TRUE, patch |-> <<>>]
    ELSE [raised |-> FALSE,
          patch  |-> [path |-> rel, diff |-> MakeUnifiedDiff(rel, <<>>, content),
                      content |-> content, risk |-> risk, summary |-> "Add"]]

\* PatchEngine.create_edit_patch: [raised, patch]
CreateEditPatch(rel, old_content, new_content, risk) ==
    IF ~Containment(rel)
    THEN [raised |-> TRUE, patch |-> <<>>]
    ELSE [raised |-> FALSE,
          patch  |-> [path |-> rel, diff |-> MakeUnifiedDiff(rel, old_content, new_content),
                      content |-> new_content, risk |-> risk, summary |-> "Edit"]]

\* the text of a diff line starts with "+" and not with "+++"
IsAddedLine(d) ==
    /\ d.mark = "+"
    /\ ~(d.line.k = "raw" /\ StartsWith(d.line.n, <<"+", "+">>))

RECURSIVE AddedLines(_)
\* apply_patches, lines 80-84: the lines a diff marks as added
AddedLines(diff) ==
    IF diff = <<>> THEN <<>>
    ELSE (IF IsAddedLine(Head(diff)) THEN <<Head(diff).line>> ELSE <<>>)
         \o AddedLines(Tail(diff))

\* the state apply_patches threads through its loop
ApplyStart(f, d) == [files |-> f, dirs |-> d, applied |-> <<>>, errors |-> <<>>,
                     raised |-> FALSE]

OutsideError(rel) == [kind |-> "outside", idx |-> 0, path |-> rel, names |-> {}]

\* WriteFile that appends to a file that exists instead of replacing its text
WriteFileAppending(f, p, content) ==
    [x \in (DOMAIN f) \cup {p} |->
        IF x # p THEN f[x] ELSE IF p \in DOMAIN f THEN f[p] \o content ELSE content]

\* path.write_text(content): the file holds content, whatever it held
WriteFile(f, p, content) ==
    [x \in (DOMAIN f) \cup {p} |-> IF x = p THEN content ELSE f[x]]

\* ApplyOne without the test of the mode: it writes in every mode
ApplyOneInAnyMode(st, p, mode) ==
    IF st.raised THEN st
    ELSE IF p.path = NoPath THEN [st EXCEPT !.raised = TRUE]
    ELSE
    LET target == Resolve(Join(Root, p.path))
        parent == Parent(target)
    IN  IF ~Containment(p.path)
        THEN [st EXCEPT !.errors = Append(@, OutsideError(p.path))]
        ELSE IF \E q \in Ancestors(parent) : q \in DOMAIN st.files
        THEN [st EXCEPT !.raised = TRUE]
        ELSE IF target \in st.dirs \cup Ancestors(parent)
        THEN [st EXCEPT !.raised = TRUE,
                        !.dirs = @ \cup Ancestors(parent)]
        ELSE [st EXCEPT
                !.dirs = @ \cup Ancestors(parent),
                !.files = WriteFile(@, target,
                             IF p.content # NoContent THEN p.content
                             ELSE AddedLines(p.diff)),
                !.applied = Append(@, [path |-> p.path, dry |-> mode # "write"])]

\* one iteration of the loop of apply_patches (lines 68-90)
ApplyOne(st, p, mode) ==
    IF st.raised THEN st
    ELSE IF p.path = NoPath THEN [st EXCEPT !.raised = TRUE]       \* p["path"]: KeyError
    ELSE
    LET target == Resolve(Join(Root, p.path))
        parent == Parent(target)
    IN  IF ~Containment(p.path)
        THEN [st EXCEPT !.errors = Append(@, OutsideError(p.path))]
        ELSE IF mode # "write"
        THEN [st EXCEPT !.applied = Append(@, [path |-> p.path, dry |-> TRUE])]
        ELSE IF \E q \in Ancestors(parent) : q \in DOMAIN st.files
        THEN [st EXCEPT !.raised = TRUE]              \* mkdir: an ancestor is a file
        ELSE IF target \in st.dirs \cup Ancestors(parent)
        THEN [st EXCEPT !.raised = TRUE,              \* write_text: IsADirectoryError
                        !.dirs = @ \cup Ancestors(parent)]
        ELSE [st EXCEPT
                !.dirs = @ \cup Ancestors(parent),
                !.files = WriteFile(@, target,
                             IF p.content # NoContent THEN p.content
                             ELSE AddedLines(p.diff)),
                !.applied = Append(@, [path |-> p.path, dry |-> FALSE])]

RECURSIVE ApplyLoop(_, _, _)
ApplyLoop(st, patches, mode) ==
    IF patches = <<>> THEN st
    ELSE The({ApplyLoop(next, Tail(patches), mode) :
                 next \in {ApplyOne(st, Head(patches), mode)}})

\* PatchEngine.apply_patches on the filesystem (f, d)
ApplyPatches(f, d, patches, mode) ==
    The({ApplyLoop(ApplyStart(f, d), ps, mode) : ps \in {patches}})

-----------------------------------------------------------------------------
(* Python source text: what ast.parse makes of a sequence of lines.  A      *)
(* "def" or an "if" opens a block: the lines below it that are indented     *)
(* deeper.  A statement at depth d is a node at depth d + 1 of the tree.    *)

Opens(l) == l.k \in {"def", "if"}

RECURSIVE Code(_)
\* the lines the parser does not skip
Code(lines) ==
    IF lines = <<>> THEN <<>>
    ELSE (IF Head(lines).k = "blank" THEN <<>> ELSE <<Head(lines)>>) \o Code(Tail(lines))

\* ast.parse succeeds (no SyntaxError)
Parses(lines) ==
    LET c == Code(lines)
    IN  /\ \A i \in 1..Len(c) : c[i].k \notin {"bad", "raw"}
        /\ c # <<>> => c[1].ind = 0 /\ ~Opens(c[Len(c)])
        /\ \A i \in 2..Len(c) :
              IF Opens(c[i - 1]) THEN c[i].ind = c[i - 1].ind + 1
              ELSE c[i].ind <= c[i - 1].ind

\* the text holds a statement on which ast.parse, depending on the depth
\* the interpreter allows, raises RecursionError or MemoryError
TooDeep(lines) == \E i \in 1..Len(lines) : lines[i].k = "deep"

\* node.end_lineno of the block opened at line i: its last line of code
EndLine(lines, i) ==
    LET inBlock(j) == \A k \in (i + 1)..j :
                         lines[k].k = "blank" \/ lines[k].ind > lines[i].ind
        ends == {j \in i..Len(lines) : lines[j].k # "blank" /\ inBlock(j)}
    IN  CHOOSE j \in ends : \A k \in ends : k <= j

RECURSIVE IndicesWhere(_, _, _, _, _)
\* the line numbers from..to, in order, of the lines of kind in kinds at depth ind
IndicesWhere(lines, from, to, kinds, ind) ==
    IF from > to THEN <<>>
    ELSE (IF lines[from].k \in kinds /\ lines[from].ind = ind THEN <<from>> ELSE <<>>)
         \o IndicesWhere(lines, from + 1, to, kinds, ind)

StmtKinds == {"def", "assign", "expr", "return", "if", "pass", "import"}

\* node.body of the block opened at line i
Body(lines, i) == IndicesWhere(lines, i + 1, EndLine(lines, i), StmtKinds, lines[i].ind + 1)

Token(t, a) == [t |-> t, a |-> a]

RECURSIVE NormalizeAst(_, _)
\* _normalize_ast: the fingerprint string, as the sequence of the pieces it
\* is concatenated from ("def(2):", "assign", "expr", "return", "if")
NormalizeAst(lines, i) ==
    LET l == lines[i]
        rest == The({Flatten([j \in 1..Len(body) |-> NormalizeAst(lines, body[j])]) :
                        body \in {Body(lines, i)}})
    IN  CASE l.k = "def"    -> <<Token("def", l.a)>> \o rest
          [] l.k = "assign" -> <<Token("assign", 0)>>
          [] l.k = "expr"   -> <<Token("expr", 0)>>
          [] l.k = "return" -> <<Token("return", 0)>>
          [] l.k = "if"     -> <<Token("if", 0)>> \o rest
          [] OTHER          -> <<>>

\* the number of characters of one piece: "def(%d):" and the fixed markers
TokenLen(tok) ==
    CASE tok.t = "def"    -> 6 + (IF tok.a < 10 THEN 1 ELSE 2)
      [] tok.t = "assign" -> 6
      [] tok.t = "expr"   -> 4
      [] tok.t = "return" -> 6
      [] tok.t = "if"     -> 2

RECURSIVE StrLen(_)
\* len(body) of a fingerprint string
StrLen(toks) == IF toks = <<>> THEN 0 ELSE TokenLen(Head(toks)) + StrLen(Tail(toks))

\* _hash_body: sha256 of the fingerprint, 16 hex digits of it.  Two strings
\* have the same digest exactly when they are the same string (no collision
\* is modelled), which the fingerprint itself stands for.
HashBody(toks) == toks

MaxDepth(lines) ==
    IF lines = <<>> THEN 0
    ELSE CHOOSE d \in {lines[i].ind : i \in 1..Len(lines)} :
            \A i \in 1..Len(lines) : lines[i].ind <= d

RECURSIVE WalkDefs(_, _, _)
\* the line numbers of the FunctionDef nodes in the order of ast.walk
\* (breadth first: by depth, then by position)
WalkDefs(lines, d, maxd) ==
    IF d > maxd THEN <<>>
    ELSE IndicesWhere(lines, 1, Len(lines), {"def"}, d) \o WalkDefs(lines, d + 1, maxd)

FunctionDefs(lines) == WalkDefs(lines, 0, MaxDepth(lines))

\* path.read_text succeeds: the path is a file
Readable(f, p) == p \in DOMAIN f

\* _extract_functions: (line, name, normalized body) of every function of
\* the file, nothing when the file cannot be read or parsed
ExtractFunctions(f, p) ==
    IF ~Readable(f, p) \/ ~Parses(f[p]) THEN <<>>
    ELSE The({[j \in 1..Len(defs) |->
                 [line |-> defs[j], name |-> f[p][defs[j]].n,
                  body |-> NormalizeAst(f[p], defs[j])]] :
              defs \in {FunctionDefs(f[p])}})

-----------------------------------------------------------------------------
(* Characters: their order (code points) and str.lower *)

Alphabet ==
    <<".", "/", "0", "1", "2", "3", "4", "5", "6", "7", "8", "9", "?",
      "A", "B", "C", "D", "E", "F", "G", "H", "I", "J", "K", "L", "M",
      "N", "O", "P", "Q", "R", "S", "T", "U", "V", "W", "X", "Y", "Z", "_",
      "a", "b", "c", "d", "e", "f", "g", "h", "i", "j", "k", "l", "m",
      "n", "o", "p", "q", "r", "s", "t", "u", "v", "w", "x", "y", "z">>

Ord(c) == CHOOSE i \in 1..Len(Alphabet) : Alphabet[i] = c

FirstUpper == Ord("A")
FirstLower == Ord("a")

LowerChar(c) ==
    IF Ord(c) >= FirstUpper /\ Ord(c) < FirstUpper + 26
    THEN Alphabet[Ord(c) - FirstUpper + FirstLower] ELSE c

\* str.lower
Lower(s) == [i \in 1..Len(s) |-> LowerChar(s[i])]

RECURSIVE StrLess(_, _)
\* s < t on strings
StrLess(s, t) ==
    IF t = <<>> THEN FALSE
    ELSE IF s = <<>> THEN TRUE
    ELSE IF Head(s) # Head(t) THEN Ord(Head(s)) < Ord(Head(t))
    ELSE StrLess(Tail(s), Tail(t))

EndsWith(s, suf) == Len(suf) <= Len(s) /\ SubSeq(s, Len(s) - Len(suf) + 1, Len(s)) = suf

RECURSIVE SortedRels(_)
\* sorted() of a set of relative paths, compared as strings
SortedRels(S) ==
    IF S = {} THEN <<>>
    ELSE LET least == CHOOSE x \in S : \A y \in S \ {x} : StrLess(RelStr(x), RelStr(y))
         IN  <<least>> \o SortedRels(S \ {least})

-----------------------------------------------------------------------------
(* repo_indexer.py: the inventory of entry scripts *)

ExtensionSuffix == <<".", "e", "x", "t", "e", "n", "s", "i", "o", "n">>
ScriptPy        == <<"s", "c", "r", "i", "p", "t", ".", "p", "y">>
UnderscoreScriptPy == <<"_", "s", "c", "r", "i", "p", "t", ".", "p", "y">>
DotPy           == <<".", "p", "y">>

\* BUNDLE_PATTERNS
BundlePatterns ==
    { <<".", "t", "a", "b">>,
      <<".", "p", "a", "n", "e", "l">>,
      <<".", "p", "u", "s", "h", "b", "u", "t", "t", "o", "n">>,
      <<".", "p", "u", "l", "l", "d", "o", "w", "n">>,
      <<".", "s", "p", "l", "i", "t", "b", "u", "t", "t", "o", "n">>,
      <<".", "s", "t", "a", "c", "k">>,
      <<".", "s", "m", "a", "r", "t", "b", "u", "t", "t", "o", "n">> }

\* _is_bundle_folder
IsBundleFolder(name) == \E suf \in BundlePatterns : EndsWith(name, suf)

Last(p) == p[Len(p)]

Exists(f, d, p) == p \in d \/ p \in DOMAIN f

\* what lies directly in directory p
Entries(f, d, p) == {q \in d \cup DOMAIN f : Len(q) = Len(p) + 1 /\ Parent(q) = p}

\* _find_extension_roots: the directories below the root named *.extension
FindExtensionRoots(d) ==
    {p \in d : StrictlyInside(p) /\ EndsWith(Last(p), ExtensionSuffix)}

RootsToScan(d) == IF FindExtensionRoots(d) = {} THEN {Root} ELSE FindExtensionRoots(d)

\* the folders collect_bundles visits: bundle folders reached from a scanned
\* root through bundle folders only
BundleDirs(d) ==
    {p \in d : \E r \in RootsToScan(d) :
        /\ Len(p) > Len(r) /\ SubSeq(p, 1, Len(r)) = r
        /\ \A k \in (Len(r) + 1)..Len(p) : IsBundleFolder(p[k])}

LeastPath(S) == CHOOSE x \in S : \A y \in S \ {x} : StrLess(PathStr(x), PathStr(y))

\* _find_bundle_entry_script: script.py, else the first *_script.py, else the
\* first *.py; <<>> when the bundle has none
FindBundleEntryScript(f, d, b) ==
    LET named(suf) == {q \in Entries(f, d, b) : EndsWith(Last(q), suf)}
    IN  IF Exists(f, d, Append(b, ScriptPy)) THEN Append(b, ScriptPy)
        ELSE IF named(UnderscoreScriptPy) # {} THEN LeastPath(named(UnderscoreScriptPy))
        ELSE IF named(DotPy) # {} THEN LeastPath(named(DotPy))
        ELSE <<>>

\* entry.relative_to(repo_root)
RelativeToRoot(p) == Rel(SubSeq(p, Len(Root) + 1, Len(p)))

BundleYaml == <<"b", "u", "n", "d", "l", "e", ".", "y", "a", "m", "l">>

\* HasBundleYaml with a bundle.yaml anywhere below the bundle counted
HasBundleYamlBelow(f, b) ==
    \E q \in DOMAIN f :
        Len(q) > Len(b) /\ SubSeq(q, 1, Len(b)) = b /\ Last(q) = BundleYaml

\* _scan_bundle, lines 45-48: a file named bundle.yaml lies directly in the bundle
HasBundleYaml(f, b) == Append(b, BundleYaml) \in DOMAIN f

\* _scan_bundle: the record of bundle folder b; bundle_yaml is True or None
ScanBundle(f, d, b) ==
    [path        |-> RelativeToRoot(b),
     name        |-> Last(b),
     script      |-> IF FindBundleEntryScript(f, d, b) = <<>> THEN NoPath
                     ELSE RelativeToRoot(FindBundleEntryScript(f, d, b)),
     bundle_yaml |-> IF HasBundleYaml(f, b) THEN "True" ELSE "None"]

\* the position of x in sequence s
IndexOf(s, x) == CHOOSE i \in 1..Len(s) : s[i] = x

RECURSIVE InOrder(_, _)
\* the members of S in the order in which sequence `order` lists them
InOrder(S, order) ==
    IF S = {} THEN <<>>
    ELSE LET first == CHOOSE x \in S : \A y \in S : IndexOf(order, x) <= IndexOf(order, y)
         IN  <<first>> \o InOrder(S \ {first}, order)

RECURSIVE CollectBundles(_, _, _, _)
\* collect_bundles(parent), lines 77-87: the bundle folders directly in
\* parent, in the order parent.iterdir() yields them (order), each followed
\* by the bundles collected inside it
CollectBundles(f, d, parent, order) ==
    LET found == InOrder({q \in d : /\ Len(q) = Len(parent) + 1
                                    /\ Parent(q) = parent
                                    /\ IsBundleFolder(Last(q))}, order)
    IN  Flatten([i \in 1..Len(found) |->
                    <<ScanBundle(f, d, found[i])>> \o CollectBundles(f, d, found[i], order)])

RECURSIVE PartsLess(_, _)
\* p < q on paths: component by component
PartsLess(p, q) ==
    IF q = <<>> THEN FALSE
    ELSE IF p = <<>> THEN TRUE
    ELSE IF Head(p) # Head(q) THEN StrLess(Head(p), Head(q))
    ELSE PartsLess(Tail(p), Tail(q))

RECURSIVE SortedPaths(_)
\* sorted(roots), line 21
SortedPaths(S) ==
    IF S = {} THEN <<>>
    ELSE LET least == CHOOSE x \in S : \A y \in S \ {x} : PartsLess(x, y)
         IN  <<least>> \o SortedPaths(S \ {least})

RECURSIVE InsertPath(_, _)
InsertPath(x, s) ==
    IF s = <<>> THEN <<x>>
    ELSE IF StrLess(RelStr(x), RelStr(Head(s))) THEN <<x>> \o s
    ELSE <<Head(s)>> \o InsertPath(x, Tail(s))

\* SortPaths left out: the list as it was collected
Unsorted(paths) == paths

RECURSIVE SortPaths(_)
\* sorted(py_files), line 107: the path strings in ascending order
SortPaths(paths) ==
    IF paths = <<>> THEN <<>> ELSE InsertPath(Head(paths), SortPaths(Tail(paths)))

\* scan, lines 106-124: what is returned for the bundles visited
ScanResult(bundles) ==
    LET scripts == SelectSeq(bundles, LAMBDA b : b.script # NoPath)
        missing == SelectSeq(bundles, LAMBDA b : b.bundle_yaml # "True")
    IN  [bundles  |-> bundles,
         py_files |-> SortPaths([i \in 1..Len(scripts) |-> scripts[i].script]),
         bundles_without_yaml |-> [i \in 1..Len(missing) |-> missing[i].path],
         bundles_without_yaml_count |-> Len(missing)]

\* RepoIndexer.scan with parent.iterdir() yielding folders in the order
\* `order` lists them: the bundles in the order they were visited, the entry
\* scripts sorted, and the summary's list of bundles without bundle.yaml
Scan(f, d, order) ==
    The({ScanResult(bundles) :
         bundles \in {Flatten([i \in 1..Len(roots) |-> CollectBundles(f, d, roots[i], order)]) :
                      roots \in {SortedPaths(RootsToScan(d))}}})

\* RepoIndexer.scan()["py_files"]: the entry scripts of the bundles, sorted
PyFiles(f, d) ==
    SortedRels({RelativeToRoot(FindBundleEntryScript(f, d, b)) :
                   b \in {x \in BundleDirs(d) : FindBundleEntryScript(f, d, x) # <<>>}})

-----------------------------------------------------------------------------
(* duplicate_analyzer.py *)

\* the fingerprint length below which a function is left out (line 70)
MinBodyLen == 20

\* a script path the caller or the inventory names, as the file it reads
ScriptFile(sp) == Resolve(Join(Root, sp))

\* KeptIndices without the test of line 70: every function is kept
KeptIndicesOfAll(recs, i) == [j \in 1..(Len(recs) - i + 1) |-> i + j - 1]

RECURSIVE KeptIndices(_, _)
\* line 70: the functions whose fingerprint has at least MinBodyLen characters
KeptIndices(recs, i) ==
    IF i > Len(recs) THEN <<>>
    ELSE (IF StrLen(recs[i].body) < MinBodyLen THEN <<>> ELSE <<i>>)
         \o KeptIndices(recs, i + 1)

\* ScriptLocs with the name left out of the key whatever same_name_only says
ScriptLocsByHashOnly(f, sp, same_name_only) ==
    The({[j \in 1..Len(KeptIndices(recs, 1)) |->
            LET r == recs[KeptIndices(recs, 1)[j]]
            IN  [key |-> <<HashBody(r.body)>>,
                 hash |-> HashBody(r.body),
                 loc |-> [script |-> sp, line |-> r.line, name |-> r.name]]] :
         recs \in {ExtractFunctions(f, ScriptFile(sp))}})

\* lines 67-75 for one script: its locations, each with its clustering key
ScriptLocs(f, sp, same_name_only) ==
    The({[j \in 1..Len(KeptIndices(recs, 1)) |->
            LET r == recs[KeptIndices(recs, 1)[j]]
            IN  [key |-> IF same_name_only THEN <<HashBody(r.body), r.name>>
                         ELSE <<HashBody(r.body)>>,
                 hash |-> HashBody(r.body),
                 loc |-> [script |-> sp, line |-> r.line, name |-> r.name]]] :
         recs \in {ExtractFunctions(f, ScriptFile(sp))}})

\* every location of the scan, in scan order
AllLocs(f, paths, same_name_only) ==
    Flatten([i \in 1..Len(paths) |-> ScriptLocs(f, paths[i], same_name_only)])

RECURSIVE KeysInOrder(_, _)
\* the keys of hash_to_locs in insertion order
KeysInOrder(locs, seen) ==
    IF locs = <<>> THEN <<>>
    ELSE IF Head(locs).key \in seen THEN KeysInOrder(Tail(locs), seen)
    ELSE <<Head(locs).key>> \o KeysInOrder(Tail(locs), seen \cup {Head(locs).key})

RECURSIVE LocsOfKey(_, _)
LocsOfKey(locs, key) ==
    IF locs = <<>> THEN <<>>
    ELSE (IF Head(locs).key = key THEN <<Head(locs).loc>> ELSE <<>>)
         \o LocsOfKey(Tail(locs), key)

RECURSIVE ClustersOfKeysOverTwo(_, _)
\* ClustersOfKeys with the size test off by one: a pair of locations is no cluster
ClustersOfKeysOverTwo(keys, locs) ==
    IF keys = <<>> THEN <<>>
    ELSE LET ls == LocsOfKey(locs, Head(keys))
         IN  (IF Len(ls) <= 2 THEN <<>>
              ELSE <<[hash |-> Head(keys)[1], locations |-> ls]>>)
             \o ClustersOfKeysOverTwo(Tail(keys), locs)

RECURSIVE ClustersOfKeysAnySize(_, _)
\* ClustersOfKeys without the size test: every key becomes a cluster
ClustersOfKeysAnySize(keys, locs) ==
    IF keys = <<>> THEN <<>>
    ELSE <<[hash |-> Head(keys)[1], locations |-> LocsOfKey(locs, Head(keys))]>>
         \o ClustersOfKeysAnySize(Tail(keys), locs)

RECURSIVE ClustersOfKeys(_, _)
\* lines 76-81: a cluster for every key with more than one location
ClustersOfKeys(keys, locs) ==
    IF keys = <<>> THEN <<>>
    ELSE LET ls == LocsOfKey(locs, Head(keys))
         IN  (IF Len(ls) <= 1 THEN <<>>
              ELSE <<[hash |-> Head(keys)[1], locations |-> ls]>>)
             \o ClustersOfKeys(Tail(keys), locs)

\* SortBySize left out: the clusters in the order they were found
SortBySizeSkipped(cs) == cs

RECURSIVE OfSize(_, _)
OfSize(cs, n) ==
    IF cs = <<>> THEN <<>>
    ELSE (IF Len(Head(cs).locations) = n THEN <<Head(cs)>> ELSE <<>>) \o OfSize(Tail(cs), n)

RECURSIVE SortFrom(_, _)
SortFrom(cs, n) == IF n < 0 THEN <<>> ELSE OfSize(cs, n) \o SortFrom(cs, n - 1)

\* clusters.sort(key=len(locations), reverse=True): stable, largest first
SortBySize(cs) ==
    IF cs = <<>> THEN cs
    ELSE SortFrom(cs, CHOOSE n \in {Len(cs[i].locations) : i \in 1..Len(cs)} :
                          \A i \in 1..Len(cs) : Len(cs[i].locations) <= n)

\* an optional argument: given with a value, or left out (None)
Given(v) == [given |-> TRUE, val |-> v]
NotGiven == [given |-> FALSE, val |-> <<>>]

\* analyze, lines 66-89, on the scripts it is to read: [clusters, findings]
AnalyzePaths(f, paths, limit, same_name_only) ==
    The({[clusters |-> clusters,
          findings |-> [i \in 1..Len(clusters) |->
                          [type |-> "duplicate", cluster |-> clusters[i],
                           count |-> Len(clusters[i].locations)]]] :
         clusters \in
           {IF limit.given /\ limit.val > 0 /\ limit.val < Len(sorted)
            THEN SubSeq(sorted, 1, limit.val) ELSE sorted :
            sorted \in
              {SortBySize(found) :
               found \in
                 {ClustersOfKeys(KeysInOrder(locs, {}), locs) :
                  locs \in
                    {AllLocs(f, ps, same_name_only) : ps \in {paths}}}}}})

\* DuplicateCodeAnalyzer.analyze: [clusters, findings].  script_paths is a
\* sequence of relative paths (empty, as when left out: the inventory);
\* limit is an optional integer.
Analyze(f, d, script_paths, limit, same_name_only) ==
    The({AnalyzePaths(f, paths, limit, same_name_only) :
         paths \in {IF script_paths = <<>> THEN PyFiles(f, d) ELSE script_paths}})

\* analyze as a call that may fail: _extract_functions catches SyntaxError
\* and OSError only (line 40), so what else ast.parse raises ends the call.
\* overflow tells whether the parser gives up on a statement nested too deep.
AnalyzeOutcome(f, d, script_paths, limit, same_name_only, overflow) ==
    The({IF overflow /\ \E i \in 1..Len(paths) :
                           /\ Readable(f, ScriptFile(paths[i]))
                           /\ TooDeep(f[ScriptFile(paths[i])])
         THEN [raised |-> TRUE, clusters |-> <<>>, findings |-> <<>>]
         ELSE The({[raised |-> FALSE, clusters |-> r.clusters, findings |-> r.findings] :
                   r \in {AnalyzePaths(f, paths, limit, same_name_only)}}) :
         paths \in {IF script_paths = <<>> THEN PyFiles(f, d) ELSE script_paths}})

\* analyze, with the directories of the scan read in the order `order`
AnalyzeScanned(f, d, order, script_paths, limit, same_name_only) ==
    The({AnalyzePaths(f, paths, limit, same_name_only) :
         paths \in {IF script_paths = <<>> THEN Scan(f, d, order).py_files
                    ELSE script_paths}})

-----------------------------------------------------------------------------
(* lib_structure.py *)

\* the values a location's missing "name", "script" and "line" read as
NoName == <<"None">>
NoLine == 0

\* loc.get("name", "?") and loc.get("script", "?")
NameOr(loc)   == IF loc.name = NoName THEN <<"?">> ELSE loc.name
ScriptOr(loc) == IF loc.script = NoPath THEN <<"?">> ELSE RelStr(loc.script)

UtilsModule == "lib/utils.py"
IoModule    == "lib/io.py"
UiModule    == "lib/ui.py"

\* the module path as a relative path
ModuleRel(mod) ==
    CASE mod = UtilsModule -> Rel(<<<<"l", "i", "b">>, <<"u", "t", "i", "l", "s", ".", "p", "y">>>>)
      [] mod = IoModule    -> Rel(<<<<"l", "i", "b">>, <<"i", "o", ".", "p", "y">>>>)
      [] mod = UiModule    -> Rel(<<<<"l", "i", "b">>, <<"u", "i", ".", "p", "y">>>>)

\* mod.replace("/", ".").replace(".py", "")
ModuleImport(mod) ==
    CASE mod = UtilsModule -> "lib.utils"
      [] mod = IoModule    -> "lib.io"
      [] mod = UiModule    -> "lib.ui"

\* SuggestedModule comparing the paths as they are written
SuggestedModuleCaseSensitive(locs) ==
    LET scripts == [i \in 1..Len(locs) |-> ScriptOr(locs[i])]
        any(sub) == \E i \in 1..Len(scripts) : Contains(scripts[i], sub)
    IN  IF any(<<"u", "i">>) \/ any(<<"f", "o", "r", "m">>) THEN UiModule
        ELSE IF any(<<"i", "o">>) \/ any(<<"f", "i", "l", "e">>) THEN IoModule
        ELSE UtilsModule

\* lines 44-50: the target module of a cluster, from its script paths
SuggestedModule(locs) ==
    LET scripts == [i \in 1..Len(locs) |-> Lower(ScriptOr(locs[i]))]
        any(sub) == \E i \in 1..Len(scripts) : Contains(scripts[i], sub)
    IN  IF any(<<"u", "i">>) \/ any(<<"f", "o", "r", "m">>) THEN UiModule
        ELSE IF any(<<"i", "o">>) \/ any(<<"f", "i", "l", "e">>) THEN IoModule
        ELSE UtilsModule

RECURSIVE ProposeMapping(_, _)
\* lines 35-57: one mapping entry for every cluster that is not skipped
ProposeMapping(clusters, same_name_only) ==
    IF clusters = <<>> THEN <<>>
    ELSE LET locs  == Head(clusters).locations
             names == [i \in 1..Len(locs) |-> NameOr(locs[i])]
             same  == Cardinality(Range(names)) = 1
             entry == [function |-> names[1],
                       from_scripts |-> [i \in 1..Len(locs) |-> locs[i].script],
                       suggested_module |-> SuggestedModule(locs),
                       same_name |-> same,
                       mixed_names |-> IF same THEN {} ELSE Range(names)]
         IN  (IF Len(locs) < 2 \/ (same_name_only /\ ~same) THEN <<>> ELSE <<entry>>)
             \o ProposeMapping(Tail(clusters), same_name_only)

\* LibStructureSuggester.propose: [mapping, findings] (suggested_tree, a
\* regrouping of the names by module, is left out).  An empty or missing
\* cluster list makes it run the detector itself.
Propose(f, d, clusters, preferences, same_name_only) ==
    The({[mapping |-> mapping,
          findings |-> [i \in 1..Len(mapping) |->
                          [type |-> "proposal", mapping |-> mapping[i]]]] :
         mapping \in
           {ProposeMapping(cs, same_name_only) :
            cs \in {IF clusters = <<>>
                    THEN Analyze(f, d, <<>>, NotGiven, same_name_only).clusters
                    ELSE clusters}}})

-----------------------------------------------------------------------------
(* extract_to_lib.py *)

\* MatchingDefs without the test of the line: any function of that name
MatchingDefsByName(lines, func_name, func_line) ==
    {i \in Range(FunctionDefs(lines)) : lines[i].n = func_name}

\* the line numbers of the FunctionDef nodes named func_name at func_line
MatchingDefs(lines, func_name, func_line) ==
    {i \in Range(FunctionDefs(lines)) : lines[i].n = func_name /\ i = func_line}

\* _get_function_source: the lines of the function, <<>> for None
GetFunctionSource(f, p, func_name, func_line) ==
    IF ~Readable(f, p) \/ ~Parses(f[p]) \/ MatchingDefs(f[p], func_name, func_line) = {}
    THEN <<>>
    ELSE SubSeq(f[p], func_line, EndLine(f[p], func_line))

\* _remove_function_from_source: the text without the lines of the function,
\* the text itself when it does not parse or holds no such function
RemoveFunctionFromSource(text, func_name, func_line) ==
    IF ~Parses(text) \/ MatchingDefs(text, func_name, func_line) = {} THEN text
    ELSE SubSeq(text, 1, func_line - 1)
         \o SubSeq(text, EndLine(text, func_line) + 1, Len(text))

\* line.strip() starts with "import " or "from "
IsImport(l) == l.k = "import"

\* `import_line_stripped in line`: the text "from m import n" occurs in the line
HasImportText(l, imp) == l.k = "import" /\ l.m = imp.m /\ StartsWith(l.n, imp.n)

\* EnsureImport taking any import line for the one it looks for
EnsureImportUnlessAnyImport(lines, imp) ==
    IF \E i \in 1..Len(lines) : IsImport(lines[i]) THEN lines ELSE <<imp>> \o lines

\* _ensure_import
EnsureImport(lines, imp) ==
    LET imports == {i \in 1..Len(lines) : IsImport(lines[i])}
        lastIdx == IF imports = {} THEN 0
                   ELSE CHOOSE i \in imports : \A j \in imports : j <= i
    IN  IF \E i \in 1..Len(lines) : HasImportText(lines[i], imp) THEN lines
        ELSE SubSeq(lines, 1, lastIdx) \o <<imp>> \o SubSeq(lines, lastIdx + 1, Len(lines))

RECURSIVE LookupModule(_, _)
\* mapping.get(func_name, "lib/utils.py") on the dict built from the
\* proposal: of two entries for one function name the later one stays
LookupModule(mapping, func_name) ==
    IF mapping = <<>> THEN UtilsModule
    ELSE IF mapping[Len(mapping)].function = func_name
         THEN mapping[Len(mapping)].suggested_module
         ELSE LookupModule(SubSeq(mapping, 1, Len(mapping) - 1), func_name)

\* lib_contents.setdefault(mod, []).append(source), the dict as the sequence
\* of its items in insertion order
AddSource(lib, mod, source) ==
    IF \E i \in 1..Len(lib) : lib[i].mod = mod
    THEN [i \in 1..Len(lib) |->
            IF lib[i].mod = mod THEN [lib[i] EXCEPT !.sources = Append(@, source)]
            ELSE lib[i]]
    ELSE Append(lib, [mod |-> mod, sources |-> <<source>>])

ExtractError(kind, idx, path, names) ==
    [kind |-> kind, idx |-> idx, path |-> path, names |-> names]

\* the state extract threads through its loops.  origin and lib_origin are
\* not the program's: origin[j] records where extracted[j] and
\* script_patches[j] come from (the cluster's position, the lines removed
\* from the script, the canonical source of the cluster), lib_origin the
\* positions of the clusters whose source went into a library module.
ExtractStart == [script_patches |-> <<>>, extracted |-> <<>>, errors |-> <<>>,
                 lib |-> <<>>, raised |-> FALSE, origin |-> <<>>, lib_origin |-> <<>>]

\* `not script_path`: None or the empty string
NoScript(sp) == sp = NoPath \/ (~sp.abs /\ sp.parts = <<>>)

\* lines 120-139 for one location of a cluster
ExtractLocation(f, d, st, loc, mod, idx, source) ==
    LET p        == ScriptFile(loc.script)
        text     == f[p]
        new_text == RemoveFunctionFromSource(text, loc.name, loc.line)
        imp      == ImportLine(ModuleImport(mod), loc.name)
        edit     == CreateEditPatch(loc.script, text, EnsureImport(new_text, imp), "high")
    IN  IF st.raised \/ NoScript(loc.script) \/ ~Exists(f, d, p) THEN st
        ELSE IF p \in d THEN [st EXCEPT !.raised = TRUE]      \* read_text of a directory
        ELSE IF new_text = text THEN st
        ELSE IF edit.raised THEN [st EXCEPT !.raised = TRUE]  \* ValueError of the patch engine
        ELSE [st EXCEPT
                !.script_patches = Append(@, edit.patch),
                !.extracted = Append(@, [function |-> loc.name, script |-> loc.script,
                                         module |-> mod]),
                !.origin = Append(@, [idx |-> idx, canonical |-> source,
                                      removed |-> SubSeq(text, loc.line,
                                                         EndLine(text, loc.line))])]

RECURSIVE ExtractLocations(_, _, _, _, _, _, _)
ExtractLocations(f, d, st, locs, mod, idx, source) ==
    IF locs = <<>> THEN st
    ELSE The({ExtractLocations(f, d, next, Tail(locs), mod, idx, source) :
                 next \in {ExtractLocation(f, d, st, Head(locs), mod, idx, source)}})

\* sorted(names) fails on a set that mixes None with strings
SortFails(names) == NoName \in names /\ Cardinality(names) > 1

\* ExtractCluster without the test of lines 99-102 on the names of the cluster
ExtractClusterAnyNames(f, d, st, cluster, idx, selected, mapping) ==
    LET locs      == cluster.locations
        first     == locs[1]
        func_name == NameOr(first)
        source    == GetFunctionSource(f, ScriptFile(first.script), func_name, first.line)
        mod       == LookupModule(mapping, func_name)
    IN  IF st.raised \/ ~selected \/ Len(locs) < 2 THEN st
        ELSE IF NoScript(first.script) \/ first.line = NoLine
        THEN [st EXCEPT !.errors = Append(@, ExtractError("missing", idx, NoPath, {}))]
        ELSE IF source = <<>>
        THEN [st EXCEPT !.errors =
                 Append(@, ExtractError("noextract", idx, first.script, {func_name}))]
        ELSE ExtractLocations(f, d,
                [st EXCEPT !.lib = AddSource(@, mod, source), !.lib_origin = Append(@, idx)],
                locs, mod, idx, source)

\* lines 94-139 for the cluster at position idx (0-based)
ExtractCluster(f, d, st, cluster, idx, selected, mapping) ==
    LET locs      == cluster.locations
        names     == {locs[i].name : i \in 1..Len(locs)}
        first     == locs[1]
        func_name == NameOr(first)
        source    == GetFunctionSource(f, ScriptFile(first.script), func_name, first.line)
        mod       == LookupModule(mapping, func_name)
    IN  IF st.raised \/ ~selected \/ Len(locs) < 2 THEN st
        ELSE IF Cardinality(names) > 1
        THEN IF SortFails(names) THEN [st EXCEPT !.raised = TRUE]
             ELSE [st EXCEPT !.errors = Append(@, ExtractError("mixed", idx, NoPath, names))]
        ELSE IF NoScript(first.script) \/ first.line = NoLine
        THEN [st EXCEPT !.errors = Append(@, ExtractError("missing", idx, NoPath, {}))]
        ELSE IF source = <<>>
        THEN [st EXCEPT !.errors =
                 Append(@, ExtractError("noextract", idx, first.script, {func_name}))]
        ELSE ExtractLocations(f, d,
                [st EXCEPT !.lib = AddSource(@, mod, source), !.lib_origin = Append(@, idx)],
                locs, mod, idx, source)

RECURSIVE ExtractClusters(_, _, _, _, _, _, _)
\* the loop of lines 93-139
ExtractClusters(f, d, st, clusters, idx, cluster_indices, mapping) ==
    IF idx >= Len(clusters) THEN st
    ELSE The({ExtractClusters(f, d, next, clusters, idx + 1, cluster_indices, mapping) :
                 next \in {ExtractCluster(f, d, st, clusters[idx + 1], idx,
                               ~cluster_indices.given \/ idx \in cluster_indices.val,
                               mapping)}})

RECURSIVE JoinSources(_)
\* "\n\n".join(func_sources): an empty line between two sources
JoinSources(sources) ==
    IF Len(sources) <= 1 THEN Flatten(sources)
    ELSE Head(sources) \o <<BlankLine>> \o JoinSources(Tail(sources))

RECURSIVE RStrip(_)
\* old.rstrip(), on lines: the text without its trailing empty lines
RStrip(lines) ==
    IF lines # <<>> /\ lines[Len(lines)].k = "blank"
    THEN RStrip(SubSeq(lines, 1, Len(lines) - 1)) ELSE lines

\* AppendToModule dropping what the module held
AppendToModuleReplacing(old, content) == content

\* old.rstrip() + "\n\n" + content
AppendToModule(old, content) ==
    IF RStrip(old) = <<>> THEN <<BlankLine, BlankLine>> \o content
    ELSE RStrip(old) \o <<BlankLine>> \o content

\* lines 141-152: the patch of one library module
LibPatch(f, d, item) ==
    LET rel     == ModuleRel(item.mod)
        p       == ScriptFile(rel)
        content == JoinSources(item.sources)
    IN  IF Exists(f, d, p)
        THEN CreateEditPatch(rel, f[p], AppendToModule(f[p], content), "medium").patch
        ELSE CreateAddFilePatch(rel, content, "medium").patch

\* the result of extract
ExtractResult(raised, patches, st, errors, f, d) ==
    [raised |-> raised, patches |-> patches, extracted |-> st.extracted,
     errors |-> errors, files |-> f, dirs |-> d,
     origin |-> st.origin, lib_origin |-> st.lib_origin]

\* ExtractFinish with the script patches put before the library patches
ExtractFinishScriptsFirst(f, d, st, mode) ==
    IF st.raised \/ \E i \in 1..Len(st.lib) : ScriptFile(ModuleRel(st.lib[i].mod)) \in d
    THEN ExtractResult(TRUE, <<>>, ExtractStart, <<>>, f, d)   \* read_text of a directory
    ELSE The({IF mode # "write"
              THEN ExtractResult(FALSE, patches, st, st.errors, f, d)
              ELSE The({ExtractResult(ap.raised, patches, st, st.errors \o ap.errors,
                                      ap.files, ap.dirs) :
                        ap \in {ApplyPatches(f, d, patches, "write")}}) :
              patches \in {st.script_patches
                           \o [i \in 1..Len(st.lib) |-> LibPatch(f, d, st.lib[i])]}})

\* lines 141-164, after the loop over the clusters has left st
ExtractFinish(f, d, st, mode) ==
    IF st.raised \/ \E i \in 1..Len(st.lib) : ScriptFile(ModuleRel(st.lib[i].mod)) \in d
    THEN ExtractResult(TRUE, <<>>, ExtractStart, <<>>, f, d)   \* read_text of a directory
    ELSE The({IF mode # "write"
              THEN ExtractResult(FALSE, patches, st, st.errors, f, d)
              ELSE The({ExtractResult(ap.raised, patches, st, st.errors \o ap.errors,
                                      ap.files, ap.dirs) :
                        ap \in {ApplyPatches(f, d, patches, "write")}}) :
              patches \in {[i \in 1..Len(st.lib) |-> LibPatch(f, d, st.lib[i])]
                           \o st.script_patches}})

\* extract on the cluster list clusters (lines 82-164)
ExtractOn(f, d, clusters, cluster_indices, mode) ==
    The({ExtractFinish(f, d, st, mode) :
         st \in {ExtractClusters(f, d, ExtractStart, cs, 0, cluster_indices, mapping) :
                 cs \in {clusters},
                 mapping \in {Propose(f, d, clusters, NotGiven, FALSE).mapping}}})

\* ExtractToLibEngine.extract on the filesystem (f, d): what it returns
\* (patches, extracted, errors), whether it raised instead, and the
\* filesystem it leaves.  The detector runs when no clusters are passed.
Extract(f, d, clusters, cluster_indices, mode, same_name_only) ==
    The({ExtractOn(f, d, cs, cluster_indices, mode) :
         cs \in {IF clusters.given THEN clusters.val
                 ELSE Analyze(f, d, <<>>, NotGiven, same_name_only).clusters}})

-----------------------------------------------------------------------------
(* extension_creator.py.  The templates are files of the package; what is   *)
(* rendered from template tpl for title t is the one line                   *)
(* Line("raw", t, 0, 0, 0, tpl).                                            *)

\* the file names and folder suffixes the creator writes
HelpHtml         == <<"h", "e", "l", "p", ".", "h", "t", "m", "l">>
ExtensionsJson   == <<"e", "x", "t", "e", "n", "s", "i", "o", "n", "s", ".", "j", "s", "o", "n">>
PushbuttonSuffix == <<".", "p", "u", "s", "h", "b", "u", "t", "t", "o", "n">>
PanelSuffix      == <<".", "p", "a", "n", "e", "l">>
TabSuffix        == <<".", "t", "a", "b">>

Rendered(tpl, title) == <<Line("raw", title, 0, 0, 0, tpl)>>

\* DEFAULT_CONFIG_NAME
DefaultConfigName == <<"e", "x", "t", "e", "n", "s", "i", "o", "n", "_", "c", "o", "n", "f", "i", "g", ".", "y", "a", "m", "l">>

\* the process's working directory, which relative paths resolve against
Cwd == Root

\* a filesystem and the exception, if any, that ended the writing
Fs(f, d) == [files |-> f, dirs |-> d, raised |-> FALSE]

\* path.mkdir(parents=True, exist_ok=True)
Mkdir(fs, p) ==
    IF fs.raised THEN fs
    ELSE IF \E q \in Ancestors(p) : q \in DOMAIN fs.files THEN [fs EXCEPT !.raised = TRUE]
    ELSE [fs EXCEPT !.dirs = @ \cup Ancestors(p)]

\* path.write_text(content)
WriteText(fs, p, content) ==
    IF fs.raised THEN fs
    ELSE IF p \in fs.dirs \/ Parent(p) \notin fs.dirs THEN [fs EXCEPT !.raised = TRUE]
    ELSE [fs EXCEPT !.files = WriteFile(@, p, content)]

\* create_extension_config: the template is written only in write mode
CreateExtensionConfig(f, d, config_path, mode) ==
    LET path == Resolve(Join(Cwd, config_path))
    IN  IF mode = "write"
        THEN WriteText(Mkdir(Fs(f, d), Parent(path)), path,
                       Rendered("extension_config.yaml", <<>>))
        ELSE Fs(f, d)

\* _create_pushbutton: the folder, script.py, bundle.yaml and help.html
CreatePushbutton(fs, folder, name, include_help) ==
    LET a == WriteText(Mkdir(fs, folder), Append(folder, ScriptPy),
                       Rendered("script.py", name))
        b == WriteText(a, Append(folder, BundleYaml), Rendered("bundle_pushbutton.yaml", name))
    IN  IF include_help
        THEN WriteText(b, Append(folder, HelpHtml), Rendered("help.html", name))
        ELSE b

\* the paths a pushbutton adds to `created`
PushbuttonCreated(rel, include_help) ==
    <<Append(rel, ScriptPy), Append(rel, BundleYaml)>>
    \o (IF include_help THEN <<Append(rel, HelpHtml)>> ELSE <<>>)

RECURSIVE CreateItems(_, _, _, _, _)
\* process_item for the pushbutton items of a panel, in write mode
CreateItems(fs, ext_folder, panel_rel, items, include_help) ==
    IF items = <<>> THEN fs
    ELSE CreateItems(
            CreatePushbutton(fs, ext_folder \o Append(panel_rel, Head(items) \o PushbuttonSuffix),
                             Head(items), include_help),
            ext_folder, panel_rel, Tail(items), include_help)

RECURSIVE CreatePanels(_, _, _, _, _)
\* lines 305-332 for the panels of one tab: the panel folder, its
\* bundle.yaml when it has items, then the items
CreatePanels(fs, ext_folder, tab_rel, panels, include_help) ==
    IF panels = <<>> THEN fs
    ELSE LET panel_rel == Append(tab_rel, Head(panels).name \o PanelSuffix)
             made == Mkdir(fs, ext_folder \o panel_rel)
             laid == IF Head(panels).items = <<>> THEN made
                     ELSE WriteText(made, ext_folder \o Append(panel_rel, BundleYaml),
                                    Rendered("bundle_panel.yaml", Flatten(Head(panels).items)))
         IN  CreatePanels(CreateItems(laid, ext_folder, panel_rel, Head(panels).items,
                                      include_help),
                          ext_folder, tab_rel, Tail(panels), include_help)

RECURSIVE CreateTabs(_, _, _, _)
CreateTabs(fs, ext_folder, tabs, include_help) ==
    IF tabs = <<>> THEN fs
    ELSE CreateTabs(CreatePanels(fs, ext_folder, <<Head(tabs).name \o TabSuffix>>,
                                 Head(tabs).panels, include_help),
                    ext_folder, Tail(tabs), include_help)

\* create_extension without a config file, for tabs whose items are
\* pushbuttons (pulldowns and stacks are written behind the same do_write
\* test): the filesystem it leaves.  An exception ends the writing and is
\* returned in errors.
CreateExtension(f, d, output_path, extension_name, tabs, include_help, mode) ==
    LET ext_folder == Append(Resolve(Join(Cwd, output_path)), extension_name \o ExtensionSuffix)
    IN  IF mode = "write"
        THEN WriteText(CreateTabs(Mkdir(Fs(f, d), ext_folder), ext_folder, tabs, include_help),
                       Append(ext_folder, ExtensionsJson), Rendered("extensions.json", extension_name))
        ELSE Fs(f, d)

\* the classes of the lines of a bundle.yaml, kept in field m of a raw line
IsLayoutHeader(l) == l.k = "raw" /\ l.m = "layout:"
IsDashItem(l)     == l.k = "raw" /\ l.m = "-"
DashItem(name)    == Line("raw", name, 0, 0, 0, "-")

\* _append_to_layout: the new text of the file, or the old one when nothing
\* is appended
AppendToLayout(text, item) ==
    LET n       == Len(text)
        headers == {i \in 1..n : IsLayoutHeader(text[i])}
        first   == CHOOSE i \in headers : \A j \in headers : i <= j
        stops   == {i \in (first + 1)..n : ~IsLayoutHeader(text[i]) /\ ~IsDashItem(text[i])}
        stop    == CHOOSE i \in stops : \A j \in stops : i <= j
        dashes  == {i \in 1..n : IsDashItem(text[i])}
        lastd   == CHOOSE i \in dashes : \A j \in dashes : j <= i
        insert(at) == SubSeq(text, 1, at - 1) \o <<DashItem(item)>> \o SubSeq(text, at, n)
    IN  IF headers = {} THEN text
        ELSE IF \E i \in 1..n : IsDashItem(text[i]) /\ StartsWith(text[i].n, item) THEN text
        ELSE IF stops # {} /\ text[stop].k = "blank" THEN insert(stop)
        ELSE IF dashes # {} THEN insert(lastd + 1)
        ELSE text

\* add_button: the filesystem it leaves
AddButton(f, d, target, button_name, include_help, update_layout, mode) ==
    LET folder == Root \o Append(target, button_name \o PushbuttonSuffix)
        made   == CreatePushbutton(Fs(f, d), folder, button_name, include_help)
        yaml   == Root \o Append(target, BundleYaml)
    IN  IF mode # "write" THEN Fs(f, d)
        ELSE IF made.raised \/ ~update_layout \/ yaml \notin DOMAIN made.files THEN made
        ELSE [made EXCEPT !.files = WriteFile(@, yaml, AppendToLayout(made.files[yaml], button_name))]

-----------------------------------------------------------------------------
(* server.py: the tools that take a mode *)

\* the default of each tool's mode parameter
DefaultMode(tool) ==
    CASE tool = "generate_bundle_yaml"         -> "dry_run"     \* line 223
      [] tool = "apply_patch"                  -> "dry_run"     \* line 311
      [] tool = "create_extension_config_tool" -> "write"       \* line 376
      [] tool = "create_extension"             -> "dry_run"     \* line 403
      [] tool = "add_button"                   -> "dry_run"     \* line 442
      [] tool = "extract_to_lib"               -> "dry_run"     \* line 465

\* the mode a call runs in
EffectiveMode(tool, mode) == IF mode.given THEN mode.val ELSE DefaultMode(tool)

\* generate_bundle_yaml, lines 232-242: an add patch for every bundle
\* without bundle.yaml (all of them, or those of bundle_paths)
BundleYamlPatches(f, d, bundle_paths) ==
    LET lacking == {b \in BundleDirs(d) :
                       /\ ~HasBundleYaml(f, b)
                       /\ bundle_paths = {} \/ RelativeToRoot(b) \in bundle_paths}
        order   == SortedRels({RelativeToRoot(b) : b \in lacking})
    IN  [i \in 1..Len(order) |->
            CreateAddFilePatch(Rel(Append(order[i].parts, BundleYaml)),
                               Rendered("bundle.yaml", Last(order[i].parts)), "low").patch]

\* what a tool call leaves: the filesystem, and whether the call raised
Left(r) == [files |-> r.files, dirs |-> r.dirs, raised |-> r.raised]

\* generate_bundle_yaml
GenerateBundleYaml(f, d, bundle_paths, mode) ==
    IF mode = "write"
    THEN Left(ApplyPatches(f, d, BundleYamlPatches(f, d, bundle_paths), "write"))
    ELSE Fs(f, d)

\* apply_patch
ApplyPatch(f, d, patches, mode) == Left(ApplyPatches(f, d, patches, mode))

\* extract_to_lib
ExtractToLib(f, d, clusters, cluster_indices, mode, same_name_only) ==
    Left(Extract(f, d, clusters, cluster_indices, mode, same_name_only))

\* create_extension_config_tool: `config_path or "extension_config.yaml"`
CreateExtensionConfigTool(f, d, config_path, mode) ==
    CreateExtensionConfig(f, d,
        IF config_path = Rel(<<>>) THEN Rel(<<DefaultConfigName>>) ELSE config_path, mode)

\* create_extension called without config_path and with tabs as a list; the
\* engine catches what the writing raises (line 344)
CreateExtensionTool(f, d, output_path, extension_name, tabs, include_help, mode) ==
    [CreateExtension(f, d, output_path, extension_name, tabs, include_help, mode)
        EXCEPT !.raised = FALSE]

\* add_button: nothing is done without target or button_name; the engine
\* catches what the writing raises (line 432)
AddButtonTool(f, d, target, button_name, include_help, update_layout, mode) ==
    IF target = <<>> \/ button_name = <<>> THEN Fs(f, d)
    ELSE [AddButton(f, d, target, button_name, include_help, update_layout, mode)
             EXCEPT !.raised = FALSE]

\* the tools that take a mode
ModeTools ==
    {"generate_bundle_yaml", "apply_patch", "create_extension_config_tool",
     "create_extension", "add_button", "extract_to_lib"}

\* a call of tool with arguments args, mode given or left out
RunTool(f, d, tool, args) ==
    LET mode == EffectiveMode(tool, args.mode)
    IN  CASE tool = "generate_bundle_yaml" ->
                GenerateBundleYaml(f, d, args.bundle_paths, mode)
          [] tool = "apply_patch" ->
                ApplyPatch(f, d, args.patches, mode)
          [] tool = "create_extension_config_tool" ->
                CreateExtensionConfigTool(f, d, args.config_path, mode)
          [] tool = "create_extension" ->
                CreateExtensionTool(f, d, args.output_path, args.extension_name, args.tabs,
                                    args.include_help, mode)
          [] tool = "add_button" ->
                AddButtonTool(f, d, args.target, args.button_name, args.include_help,
                              args.update_layout, mode)
          [] tool = "extract_to_lib" ->
                ExtractToLib(f, d, args.clusters, args.cluster_indices, mode,
                             args.same_name_only)

-----------------------------------------------------------------------------
(* The patch engine under its callers: one call of create_add_file_patch,   *)
(* create_edit_patch or apply_patches on a repository, and the same         *)
(* apply_patches call made again.                                           *)

\* the longest patch list a caller passes
MaxPatches == 2
\* the most calls made on one repository
MaxCalls == 2

NoCall == [op |-> "none"]

\* relative paths a caller may pass: inside the root, in a subdirectory, the
\* root itself, "../e", a sibling of the root whose name starts with the
\* root's, absolute paths outside and inside the root
PathChoices ==
    { Rel(<< <<"a">> >>), Rel(<< <<"d">>, <<"a">> >>), Rel(<<>>),
      Rel(<<DotDot, <<"e">> >>), Rel(<<DotDot, <<"r", "x">>, <<"a">> >>),
      Abs(<< <<"e">> >>), Abs(Root \o << <<"a">> >>) }

ContentChoices ==
    { << RawLine(<<"x">>) >>, << RawLine(<<"+", "+", "y">>), RawLine(<<"x">>) >> }

\* patch records a caller may pass to apply_patches: built like the engine's
\* own, with or without "content", with or without "path"
PatchChoices ==
    { [path |-> p, diff |-> MakeUnifiedDiff(p, <<>>, c),
       content |-> IF has THEN c ELSE NoContent, risk |-> "low", summary |-> "Add"] :
         p \in PathChoices \cup {NoPath}, c \in ContentChoices, has \in BOOLEAN }

RECURSIVE SeqsUpTo(_, _)
\* the sequences over S of length at most n
SeqsUpTo(S, n) ==
    IF n = 0 THEN {<<>>}
    ELSE LET shorter == SeqsUpTo(S, n - 1)
         IN  shorter \cup {Append(q, x) : q \in {r \in shorter : Len(r) = n - 1}, x \in S}

ModeChoices == {"dry_run", "write", "commit"}

\* the files of the repository before the first call
PatchInitFiles == (Root \o << <<"a">> >> :> << RawLine(<<"o">>) >>)

PatchInit ==
    /\ files = PatchInitFiles
    /\ dirs = Ancestors(Root)
    /\ last = NoCall
    /\ prev = [files |-> files, dirs |-> dirs]
    /\ calls = 0

CreateAddFilePatchCall ==
    /\ last = NoCall
    /\ \E rel \in PathChoices, content \in ContentChoices \cup {<<>>} :
          LET r == CreateAddFilePatch(rel, content, "low")
          IN  last' = [op |-> "create_add_file_patch", rel |-> rel, content |-> content,
                       raised |-> r.raised, patch |-> r.patch]
    /\ prev' = [files |-> files, dirs |-> dirs]
    /\ calls' = calls + 1
    /\ UNCHANGED <<files, dirs>>

CreateEditPatchCall ==
    /\ last = NoCall
    /\ \E rel \in PathChoices, old \in ContentChoices \cup {<<>>}, new \in ContentChoices :
          LET r == CreateEditPatch(rel, old, new, "medium")
          IN  last' = [op |-> "create_edit_patch", rel |-> rel, content |-> new,
                       raised |-> r.raised, patch |-> r.patch]
    /\ prev' = [files |-> files, dirs |-> dirs]
    /\ calls' = calls + 1
    /\ UNCHANGED <<files, dirs>>

\* apply_patches(patches, mode) on the current filesystem
DoApplyPatches(patches, mode) ==
    \E r \in {ApplyPatches(files, dirs, patches, mode)} :
        /\ last' = [op |-> "apply_patches", patches |-> patches, mode |-> mode,
                    applied |-> r.applied, errors |-> r.errors, raised |-> r.raised,
                    before |-> IF last = NoCall THEN NoCall
                               ELSE [op |-> "apply_patches", applied |-> last.applied,
                                     errors |-> last.errors, raised |-> last.raised]]
        /\ files' = r.files
        /\ dirs' = r.dirs
        /\ prev' = [files |-> files, dirs |-> dirs]
        /\ calls' = calls + 1

ApplyPatchesCall ==
    /\ last = NoCall
    /\ \E patches \in SeqsUpTo(PatchChoices, MaxPatches), mode \in ModeChoices :
          DoApplyPatches(patches, mode)

\* the caller applies the same list in the same mode once more
ApplyPatchesAgain ==
    /\ last.op = "apply_patches"
    /\ calls < MaxCalls
    /\ DoApplyPatches(last.patches, last.mode)

PatchNext ==
    \/ CreateAddFilePatchCall
    \/ CreateEditPatchCall
    \/ ApplyPatchesCall
    \/ ApplyPatchesAgain

SpecPatch == PatchInit /\ [][PatchNext]_vars

-----------------------------------------------------------------------------
(* The duplicate detector and the extraction engine on a repository of two  *)
(* bundles, a.tab and b.tab, each with its entry script, and possibly a     *)
(* library module lib/utils.py: one call of analyze or extract, and the     *)
(* same extract call made again.                                            *)

\* the longest cluster list a caller passes to extract
MaxClusters == 2

NameF == <<"f">>
NameG == <<"g">>

\* def name(p, q): return ...        fingerprint "def(2):return"
ShortFunction(name, v) == <<DefLine(name, 2, 0), Stmt("return", 1, v)>>

\* def name(p, q): x = ...; y = ...; return ...
\* fingerprint "def(2):assignassignreturn"; v tells the bodies apart
LongFunction(name, v) ==
    <<DefLine(name, 2, 0), Stmt("assign", 1, v), Stmt("assign", 1, v), Stmt("return", 1, v)>>

\* the texts a script may hold
ScriptChoices ==
    { ShortFunction(NameF, 1),
      ShortFunction(NameG, 1),
      LongFunction(NameF, 1),
      LongFunction(NameF, 2),
      LongFunction(NameG, 1),
      LongFunction(NameF, 1) \o LongFunction(NameG, 1),
      <<ImportLine("os", <<"p">>)>> \o LongFunction(NameF, 1) \o <<Stmt("expr", 0, 1)>>,
      LongFunction(NameF, 1) \o <<Line("bad", <<>>, 0, 0, 0, "")>> }

BundleA == <<"a", ".", "t", "a", "b">>
BundleB == <<"b", ".", "t", "a", "b">>

Script1 == Rel(<<BundleA, ScriptPy>>)
Script2 == Rel(<<BundleB, ScriptPy>>)

\* what lib/utils.py may hold before the call, <<>> when it does not exist
LibChoices == { <<>>, <<Stmt("assign", 0, 9)>> }

\* the repository with the two scripts and the library module
Repo(text1, text2, lib) ==
    LET scripts == (ScriptFile(Script1) :> text1) @@ (ScriptFile(Script2) :> text2)
    IN  [files |-> IF lib = <<>> THEN scripts
                   ELSE scripts @@ (ScriptFile(ModuleRel(UtilsModule)) :> lib),
         dirs  |-> Ancestors(Root) \cup {Append(Root, BundleA), Append(Root, BundleB)}
                   \cup (IF lib = <<>> THEN {} ELSE {Parent(ScriptFile(ModuleRel(UtilsModule)))})]

Loc(script, line, name) == [script |-> script, line |-> line, name |-> name]
Cluster(hash, locs) == [hash |-> hash, locations |-> locs]

\* the hash analyze gives a cluster of long functions
LongHash == HashBody(NormalizeAst(LongFunction(NameF, 1), 1))

\* clusters a caller may pass, as analyze returned them when the scripts
\* held long functions: f at line 1 of both scripts; f and g; a second
\* location without a name; a first location without a script; f at line 2
ClusterChoices ==
    { Cluster(LongHash, <<Loc(Script1, 1, NameF), Loc(Script2, 1, NameF)>>),
      Cluster(LongHash, <<Loc(Script1, 1, NameF), Loc(Script2, 1, NameG)>>),
      Cluster(LongHash, <<Loc(Script1, 1, NameF), Loc(Script2, 1, NoName)>>),
      Cluster(LongHash, <<Loc(NoPath, 1, NameG), Loc(Script2, 1, NameG)>>),
      Cluster(LongHash, <<Loc(Script1, 2, NameF), Loc(Script2, 2, NameF)>>) }

\* the arguments of an extract call
ExtractArgs ==
    { [clusters |-> NotGiven, cluster_indices |-> ci, mode |-> m, same_name_only |-> sno] :
         ci \in {NotGiven, Given({0}), Given({1})}, m \in {"dry_run", "write"},
         sno \in BOOLEAN }
    \cup
    { [clusters |-> Given(cs), cluster_indices |-> NotGiven, mode |-> m,
       same_name_only |-> TRUE] :
         cs \in SeqsUpTo(ClusterChoices, MaxClusters), m \in {"dry_run", "write"} }

Init ==
    /\ \E t1 \in ScriptChoices, t2 \in ScriptChoices, lib \in LibChoices :
          /\ files = Repo(t1, t2, lib).files
          /\ dirs = Repo(t1, t2, lib).dirs
    /\ last = NoCall
    /\ prev = [files |-> files, dirs |-> dirs]
    /\ calls = 0

\* analyze(script_paths, limit, same_name_only): reads, writes nothing
AnalyzeCall ==
    /\ last = NoCall
    /\ \E paths \in {<<>>, <<Script2, Script1>>}, limit \in {NotGiven, Given(1)},
          sno \in BOOLEAN :
          \E r \in {Analyze(files, dirs, paths, limit, sno)} :
              last' = [op |-> "analyze", script_paths |-> paths, limit |-> limit,
                       same_name_only |-> sno, clusters |-> r.clusters,
                       findings |-> r.findings]
    /\ prev' = [files |-> files, dirs |-> dirs]
    /\ calls' = calls + 1
    /\ UNCHANGED <<files, dirs>>

\* extract(clusters, cluster_indices, mode, same_name_only) on the current
\* filesystem; `used` is the cluster list it works on
DoExtract(args) ==
    \E r \in {Extract(files, dirs, args.clusters, args.cluster_indices, args.mode,
                      args.same_name_only)} :
        /\ last' = [op |-> "extract", args |-> args,
                    used |-> IF args.clusters.given THEN args.clusters.val
                             ELSE Analyze(files, dirs, <<>>, NotGiven,
                                          args.same_name_only).clusters,
                    raised |-> r.raised, patches |-> r.patches,
                    extracted |-> r.extracted, errors |-> r.errors,
                    origin |-> r.origin, lib_origin |-> r.lib_origin,
                    prior |-> IF last = NoCall THEN "none"
                              ELSE IF last.raised THEN "raised" ELSE "returned"]
        /\ files' = r.files
        /\ dirs' = r.dirs
        /\ prev' = [files |-> files, dirs |-> dirs]
        /\ calls' = calls + 1

ExtractCall ==
    /\ last = NoCall
    /\ \E args \in ExtractArgs : DoExtract(args)

\* the caller makes the same extract call once more
ExtractAgain ==
    /\ last.op = "extract"
    /\ calls < MaxCalls
    /\ DoExtract(last.args)

Next ==
    \/ AnalyzeCall
    \/ ExtractCall
    \/ ExtractAgain

Spec == Init /\ [][Next]_vars

-----------------------------------------------------------------------------
(* The tools of the server that take a mode, each called on a repository   *)
(* of two bundles with or without passing a mode, and the same call made    *)
(* again.                                                                   *)

\* the mode argument of a call: left out, or one of the two values
ModeArgs == {NotGiven, Given("dry_run"), Given("write")}

\* the bundle.yaml of a panel with a layout
LayoutYaml == <<Line("raw", <<>>, 0, 0, 0, "layout:"), DashItem(<<"x">>), BlankLine>>

\* the repository: two bundles with the same script, a.tab with or without
\* a bundle.yaml
ToolsRepo(text, layout) ==
    LET r == Repo(text, text, <<>>)
    IN  [files |-> IF layout THEN r.files @@ (Root \o <<BundleA, BundleYaml>> :> LayoutYaml)
                   ELSE r.files,
         dirs  |-> r.dirs]

ToolsInit ==
    /\ \E text \in {ShortFunction(NameF, 1), LongFunction(NameF, 1)}, layout \in BOOLEAN :
          /\ files = ToolsRepo(text, layout).files
          /\ dirs = ToolsRepo(text, layout).dirs
    /\ last = NoCall
    /\ prev = [files |-> files, dirs |-> dirs]
    /\ calls = 0

\* one call of a tool on the current filesystem
DoTool(tool, args) ==
    \E r \in {RunTool(files, dirs, tool, args)} :
        /\ last' = [op |-> tool, args |-> args, raised |-> r.raised]
        /\ files' = r.files
        /\ dirs' = r.dirs
        /\ prev' = [files |-> files, dirs |-> dirs]
        /\ calls' = calls + 1

GenerateBundleYamlCall ==
    /\ last = NoCall
    /\ \E bundle_paths \in {{}, {Rel(<<BundleA>>)}}, mode \in ModeArgs :
          DoTool("generate_bundle_yaml", [bundle_paths |-> bundle_paths, mode |-> mode])

ApplyPatchCall ==
    /\ last = NoCall
    /\ \E patches \in SeqsUpTo(PatchChoices, 1), mode \in ModeArgs :
          DoTool("apply_patch", [patches |-> patches, mode |-> mode])

CreateExtensionConfigToolCall ==
    /\ last = NoCall
    /\ \E config_path \in {Rel(<<>>), Rel(<< <<"c">>, <<"x">> >>)}, mode \in ModeArgs :
          DoTool("create_extension_config_tool", [config_path |-> config_path, mode |-> mode])

\* the tabs a caller may pass: none, or one tab with one panel of one pushbutton
TabsChoices ==
    { <<>>,
      <<[name |-> <<"T">>,
         panels |-> <<[name |-> <<"P">>, items |-> << <<"B">> >>]>>]>> }

CreateExtensionCall ==
    /\ last = NoCall
    /\ \E output_path \in {Rel(<<>>), Rel(<< <<"o">> >>)}, tabs \in TabsChoices,
          include_help \in BOOLEAN, mode \in ModeArgs :
          DoTool("create_extension",
                 [output_path |-> output_path, extension_name |-> <<"x">>, tabs |-> tabs,
                  include_help |-> include_help, mode |-> mode])

AddButtonCall ==
    /\ last = NoCall
    /\ \E target \in {<<>>, <<BundleA>>}, button_name \in {<<>>, <<"n">>},
          include_help \in BOOLEAN, update_layout \in BOOLEAN, mode \in ModeArgs :
          DoTool("add_button",
                 [target |-> target, button_name |-> button_name,
                  include_help |-> include_help, update_layout |-> update_layout,
                  mode |-> mode])

ExtractToLibCall ==
    /\ last = NoCall
    /\ \E same_name_only \in BOOLEAN, mode \in ModeArgs :
          DoTool("extract_to_lib",
                 [clusters |-> NotGiven, cluster_indices |-> NotGiven,
                  same_name_only |-> same_name_only, mode |-> mode])

\* the caller makes the same call once more
ToolAgain ==
    /\ last.op \in ModeTools
    /\ calls < MaxCalls
    /\ DoTool(last.op, last.args)

ToolsNext ==
    \/ GenerateBundleYamlCall
    \/ ApplyPatchCall
    \/ CreateExtensionConfigToolCall
    \/ CreateExtensionCall
    \/ AddButtonCall
    \/ ExtractToLibCall
    \/ ToolAgain

SpecTools == ToolsInit /\ [][ToolsNext]_vars

-----------------------------------------------------------------------------
(* The indexer and the detector on a repository of three bundle folders,    *)
(* a.tab, a.tab/p.panel and b.tab: one scan or one analyze call, and the    *)
(* same call made again, the directories being read in any order.           *)

PanelP == <<"p", ".", "p", "a", "n", "e", "l">>
ExtensionX == <<"x", ".", "e", "x", "t", "e", "n", "s", "i", "o", "n">>

\* what a bundle folder may hold: an entry script, a bundle.yaml, both, or
\* an entry script and a directory called bundle.yaml
BundleContents == {"script", "yaml", "both", "yamldir"}

\* the repository whose a.tab lies in directory base and whose bundle
\* folders hold what `holds` says (a function from folder to content)
ScanRepo(base, holds) ==
    LET scripts == {Append(b, ScriptPy) : b \in {x \in DOMAIN holds : holds[x] # "yaml"}}
        yamls   == {Append(b, BundleYaml) :
                       b \in {x \in DOMAIN holds : holds[x] \in {"yaml", "both"}}}
    IN  [files |-> [q \in scripts \cup yamls |->
                       IF Last(q) = ScriptPy THEN LongFunction(NameF, 1) ELSE LayoutYaml],
         dirs  |-> UNION {Ancestors(b) : b \in DOMAIN holds}
                   \cup {Append(b, BundleYaml) : b \in {x \in DOMAIN holds : holds[x] = "yamldir"}}]

\* the bundle folders of the repository whose a.tab lies in base
ScanFolders(base) ==
    {Append(base, BundleA), base \o <<BundleA, PanelP>>, Append(Root, BundleB)}

\* the orders in which the members of S may be listed
Orders(S) ==
    {s \in [1..Cardinality(S) -> S] : \A x \in S : \E i \in 1..Cardinality(S) : s[i] = x}

ScanInit ==
    /\ \E base \in {Root, Append(Root, ExtensionX)} :
          \E holds \in [ScanFolders(base) -> BundleContents] :
              /\ files = ScanRepo(base, holds).files
              /\ dirs = ScanRepo(base, holds).dirs
    /\ last = NoCall
    /\ prev = [files |-> files, dirs |-> dirs]
    /\ calls = 0

\* scan() with the directories read in the order `order`
DoScan(order) ==
    \E r \in {Scan(files, dirs, order)} :
        /\ last' = [op |-> "scan", bundles |-> r.bundles, py_files |-> r.py_files,
                    bundles_without_yaml |-> r.bundles_without_yaml,
                    bundles_without_yaml_count |-> r.bundles_without_yaml_count,
                    before |-> IF last = NoCall THEN NoCall
                               ELSE [op |-> "scan", bundles |-> last.bundles,
                                     py_files |-> last.py_files]]
        /\ prev' = [files |-> files, dirs |-> dirs]
        /\ calls' = calls + 1
        /\ UNCHANGED <<files, dirs>>

ScanCall ==
    /\ last = NoCall
    /\ \E order \in Orders(BundleDirs(dirs)) : DoScan(order)

ScanAgain ==
    /\ last.op = "scan"
    /\ calls < MaxCalls
    /\ \E order \in Orders(BundleDirs(dirs)) : DoScan(order)

\* analyze(same_name_only = sno) with the directories read in the order
\* `order`; visited is the order in which the scan came across the bundles
DoAnalyze(order, sno) ==
    \E r \in {AnalyzeScanned(files, dirs, order, <<>>, NotGiven, sno)},
       inv \in {Scan(files, dirs, order)} :
        /\ last' = [op |-> "analyze", script_paths |-> <<>>, limit |-> NotGiven,
                    same_name_only |-> sno, clusters |-> r.clusters,
                    findings |-> r.findings,
                    visited |-> [i \in 1..Len(inv.bundles) |-> inv.bundles[i].path],
                    before |-> IF last = NoCall THEN NoCall
                               ELSE [op |-> "analyze", clusters |-> last.clusters,
                                     findings |-> last.findings,
                                     visited |-> last.visited]]
        /\ prev' = [files |-> files, dirs |-> dirs]
        /\ calls' = calls + 1
        /\ UNCHANGED <<files, dirs>>

AnalyzeScanCall ==
    /\ last = NoCall
    /\ \E order \in Orders(BundleDirs(dirs)), sno \in BOOLEAN : DoAnalyze(order, sno)

AnalyzeScanAgain ==
    /\ last.op = "analyze"
    /\ calls < MaxCalls
    /\ \E order \in Orders(BundleDirs(dirs)) : DoAnalyze(order, last.same_name_only)

ScanNext ==
    \/ ScanCall
    \/ ScanAgain
    \/ AnalyzeScanCall
    \/ AnalyzeScanAgain

SpecScan == ScanInit /\ [][ScanNext]_vars

-----------------------------------------------------------------------------
(* The proposer on a repository of two bundles: one call of propose with a  *)
(* cluster list or without one, and the same call made again.               *)

BundleUi   == <<"U", "i", ".", "t", "a", "b">>
BundleIo   == <<"i", "o", ".", "t", "a", "b">>
BundleForm == <<"F", "o", "r", "m", "s", ".", "t", "a", "b">>
BundleFile == <<"f", "i", "l", "e", "s", ".", "t", "a", "b">>

Script3    == Rel(<<BundleUi, ScriptPy>>)
ScriptIo   == Rel(<<BundleIo, ScriptPy>>)
ScriptForm == Rel(<<BundleForm, ScriptPy>>)
ScriptFile2 == Rel(<<BundleFile, ScriptPy>>)

\* clusters a caller may pass to propose: f in a.tab and b.tab; f in b.tab
\* and Ui.tab; f in a.tab and io.tab; f in io.tab and g in Ui.tab; f in
\* a.tab and a location without a name in files.tab; g in Forms.tab and
\* a.tab; a single location; a first location without a script
ProposeChoices ==
    { Cluster(LongHash, <<Loc(Script1, 1, NameF), Loc(Script2, 1, NameF)>>),
      Cluster(LongHash, <<Loc(Script2, 1, NameF), Loc(Script3, 1, NameF)>>),
      Cluster(LongHash, <<Loc(Script1, 1, NameF), Loc(ScriptIo, 1, NameF)>>),
      Cluster(LongHash, <<Loc(ScriptIo, 1, NameF), Loc(Script3, 1, NameG)>>),
      Cluster(LongHash, <<Loc(Script1, 1, NameF), Loc(ScriptFile2, 1, NoName)>>),
      Cluster(LongHash, <<Loc(ScriptForm, 1, NameG), Loc(Script1, 1, NameG)>>),
      Cluster(LongHash, <<Loc(Script1, 1, NameF)>>),
      Cluster(LongHash, <<Loc(NoPath, 1, NameF), Loc(Script1, 1, NameF)>>) }

ProposeInit ==
    /\ \E t \in {ShortFunction(NameF, 1), LongFunction(NameF, 1), LongFunction(NameG, 1)} :
          /\ files = Repo(LongFunction(NameF, 1), t, <<>>).files
          /\ dirs = Repo(LongFunction(NameF, 1), t, <<>>).dirs
    /\ last = NoCall
    /\ prev = [files |-> files, dirs |-> dirs]
    /\ calls = 0

\* propose(clusters, preferences, same_name_only): reads, writes nothing
DoPropose(clusters, preferences, sno) ==
    \E r \in {Propose(files, dirs, IF clusters.given THEN clusters.val ELSE <<>>,
                       preferences, sno)} :
        /\ last' = [op |-> "propose", clusters |-> clusters, preferences |-> preferences,
                    same_name_only |-> sno, mapping |-> r.mapping,
                    findings |-> r.findings]
        /\ prev' = [files |-> files, dirs |-> dirs]
        /\ calls' = calls + 1
        /\ UNCHANGED <<files, dirs>>

ProposeCall ==
    /\ last = NoCall
    /\ \E cs \in SeqsUpTo(ProposeChoices, MaxClusters),
          preferences \in {NotGiven, Given(IoModule)}, sno \in BOOLEAN :
          DoPropose(Given(cs), preferences, sno)

\* propose without clusters
ProposeDetectCall ==
    /\ last = NoCall
    /\ \E preferences \in {NotGiven, Given(IoModule)}, sno \in BOOLEAN :
          DoPropose(NotGiven, preferences, sno)

\* the same clusters proposed again, with other preferences
ProposeAgain ==
    /\ last.op = "propose"
    /\ calls < MaxCalls
    /\ \E preferences \in {NotGiven, Given(IoModule), Given(UiModule)} :
          DoPropose(last.clusters, preferences, last.same_name_only)

ProposeNext ==
    \/ ProposeCall
    \/ ProposeDetectCall
    \/ ProposeAgain

SpecPropose == ProposeInit /\ [][ProposeNext]_vars

-----------------------------------------------------------------------------
(* The detector and the extraction engine on a repository of three bundles, *)
(* a.tab, b.tab and Ui.tab, with or without lib/utils.py: one call of       *)
(* analyze, or of extract with a cluster list or without one.               *)

NameH == <<"h">>

\* def h(): import os; return ...       an import that is not at the top
LateImport ==
    <<DefLine(NameH, 0, 0), Line("import", <<"p">>, 0, 1, 0, "os"), Stmt("return", 1, 3)>>

\* the texts a.tab/script.py may hold: f; f and g; an import, f and a call;
\* f and a function with an import in its body; an import of fx from
\* lib.utils and f
FirstScriptChoices ==
    { LongFunction(NameF, 1),
      LongFunction(NameF, 1) \o LongFunction(NameG, 1),
      <<ImportLine("os", <<"p">>)>> \o LongFunction(NameF, 1) \o <<Stmt("expr", 0, 1)>>,
      LongFunction(NameF, 1) \o LateImport,
      <<ImportLine(ModuleImport(UtilsModule), <<"f", "x">>)>> \o LongFunction(NameF, 1) }

\* what lib/utils.py may hold before the call, <<>> when it does not exist
ListLibChoices == { <<>>, <<Stmt("assign", 0, 9), BlankLine, BlankLine>> }

\* the repository with the three scripts and the library module
ListRepo(text1, text2, text3, lib) ==
    [files |-> Repo(text1, text2, lib).files @@ (ScriptFile(Script3) :> text3),
     dirs  |-> Repo(text1, text2, lib).dirs \cup {Append(Root, BundleUi)}]

\* clusters a caller may pass to extract: f in a.tab and b.tab; f in b.tab
\* and Ui.tab; f in Ui.tab and g in b.tab
ListChoices ==
    { Cluster(LongHash, <<Loc(Script1, 1, NameF), Loc(Script2, 1, NameF)>>),
      Cluster(LongHash, <<Loc(Script2, 1, NameF), Loc(Script3, 1, NameF)>>),
      Cluster(LongHash, <<Loc(Script3, 1, NameF), Loc(Script2, 1, NameG)>>) }

ListInit ==
    /\ \E t1 \in FirstScriptChoices,
          t2 \in {LongFunction(NameF, 1), LongFunction(NameF, 1) \o LongFunction(NameG, 1)},
          t3 \in {LongFunction(NameF, 1), LongFunction(NameG, 1)},
          lib \in ListLibChoices :
          /\ files = ListRepo(t1, t2, t3, lib).files
          /\ dirs = ListRepo(t1, t2, t3, lib).dirs
    /\ last = NoCall
    /\ prev = [files |-> files, dirs |-> dirs]
    /\ calls = 0

\* analyze over the inventory, or over the three scripts or the first two
\* as the caller lists them, with no limit or with a limit of -1, 0, 1 or 2
AnalyzeListCall ==
    /\ last = NoCall
    /\ \E paths \in {<<>>, <<Script1, Script2, Script3>>, <<Script1, Script2>>},
          limit \in {NotGiven, Given(-1), Given(0), Given(1), Given(2)},
          sno \in BOOLEAN :
          \E r \in {Analyze(files, dirs, paths, limit, sno)} :
              last' = [op |-> "analyze", script_paths |-> paths, limit |-> limit,
                       same_name_only |-> sno, clusters |-> r.clusters,
                       findings |-> r.findings]
    /\ prev' = [files |-> files, dirs |-> dirs]
    /\ calls' = calls + 1
    /\ UNCHANGED <<files, dirs>>

\* extract on a cluster list the caller passes
ExtractListCall ==
    /\ last = NoCall
    /\ \E cs \in SeqsUpTo(ListChoices, MaxClusters), m \in {"dry_run", "write"} :
          DoExtract([clusters |-> Given(cs), cluster_indices |-> NotGiven, mode |-> m,
                     same_name_only |-> TRUE])

\* extract on the clusters it detects itself
ExtractDetectCall ==
    /\ last = NoCall
    /\ \E m \in {"dry_run", "write"}, sno \in BOOLEAN :
          DoExtract([clusters |-> NotGiven, cluster_indices |-> NotGiven, mode |-> m,
                     same_name_only |-> sno])

ListNext ==
    \/ AnalyzeListCall
    \/ ExtractListCall
    \/ ExtractDetectCall

SpecLists == ListInit /\ [][ListNext]_vars

-----------------------------------------------------------------------------
(* The detector on a repository of three bundles whose third entry script   *)
(* may be a script with a syntax error, a text that is no script, a script  *)
(* with a statement nested too deep, or a directory: one call of analyze,   *)
(* and the same call made again.                                            *)

\* what Ui.tab/script.py may hold; <<>> stands for a directory of that name
ThirdScriptChoices ==
    { LongFunction(NameF, 1),
      LongFunction(NameF, 1) \o <<Line("bad", <<>>, 0, 0, 0, "")>>,
      <<RawLine(<<"x">>)>>,
      LongFunction(NameF, 1) \o <<Line("deep", <<>>, 0, 0, 0, "")>>,
      <<>> }

\* the repository with the three scripts, the third one a directory when
\* text3 is <<>>
ParseRepo(text2, text3) ==
    IF text3 # <<>> THEN ListRepo(LongFunction(NameF, 1), text2, text3, <<>>)
    ELSE [files |-> Repo(LongFunction(NameF, 1), text2, <<>>).files,
          dirs  |-> Repo(LongFunction(NameF, 1), text2, <<>>).dirs
                    \cup {Append(Root, BundleUi), ScriptFile(Script3)}]

ParseInit ==
    /\ \E t2 \in {LongFunction(NameF, 1), LongFunction(NameG, 1)},
          t3 \in ThirdScriptChoices :
          /\ files = ParseRepo(t2, t3).files
          /\ dirs = ParseRepo(t2, t3).dirs
    /\ last = NoCall
    /\ prev = [files |-> files, dirs |-> dirs]
    /\ calls = 0

\* analyze(script_paths, limit, same_name_only); the parser gives up on a
\* statement nested too deep or not
DoAnalyzeOutcome(paths, limit, sno) ==
    \E overflow \in BOOLEAN :
        \E r \in {AnalyzeOutcome(files, dirs, paths, limit, sno, overflow)} :
            /\ last' = [op |-> "analyze", script_paths |-> paths, limit |-> limit,
                        same_name_only |-> sno, overflow |-> overflow,
                        raised |-> r.raised,
                        clusters |-> r.clusters, findings |-> r.findings]
            /\ prev' = [files |-> files, dirs |-> dirs]
            /\ calls' = calls + 1
            /\ UNCHANGED <<files, dirs>>

AnalyzeParseCall ==
    /\ last = NoCall
    /\ \E paths \in {<<>>, <<Script1, Script2, Script3>>, <<Script3, Script1, Script2>>},
          limit \in {NotGiven, Given(1)}, sno \in BOOLEAN :
          DoAnalyzeOutcome(paths, limit, sno)

\* the same call made again
AnalyzeParseAgain ==
    /\ last.op = "analyze"
    /\ calls < MaxCalls
    /\ DoAnalyzeOutcome(last.script_paths, last.limit, last.same_name_only)

ParseNext ==
    \/ AnalyzeParseCall
    \/ AnalyzeParseAgain

SpecParse == ParseInit /\ [][ParseNext]_vars

-----------------------------------------------------------------------------
(* The claims about the proposer *)

\* the script paths of mapping entry e as the proposer reads them, in lower case
PathsOf(e) ==
    {Lower(IF e.from_scripts[i] = NoPath THEN <<"?">> ELSE RelStr(e.from_scripts[i])) :
        i \in 1..Len(e.from_scripts)}

\* one of the paths of entry e contains one of the words
Mentions(e, words) == \E s \in PathsOf(e), w \in words : Contains(s, w)

\* C27: the proposer gives a cluster the UI module if one of its script
\* paths contains "ui" or "form" in any case, otherwise the IO module if
\* one contains "io" or "file", otherwise the utility module, whatever the
\* preferences are.
C27_ModuleByOrderedRule ==
    last.op = "propose" =>
        \A i \in 1..Len(last.mapping) :
            LET e == last.mapping[i]
            IN  e.suggested_module =
                    IF Mentions(e, {<<"u", "i">>, <<"f", "o", "r", "m">>}) THEN UiModule
                    ELSE IF Mentions(e, {<<"i", "o">>, <<"f", "i", "l", "e">>}) THEN IoModule
                    ELSE UtilsModule

\* a call with preferences for the IO module whose clusters get the three
\* modules, one of them by a path written with capitals, one with paths
\* that match both rules
C27_Witness ==
    /\ last.op = "propose"
    /\ last.preferences = Given(IoModule)
    /\ \E i \in 1..Len(last.mapping) :
          /\ last.mapping[i].suggested_module = UiModule
          /\ Script3 \in Range(last.mapping[i].from_scripts)
          /\ ScriptIo \in Range(last.mapping[i].from_scripts)
    /\ \E i \in 1..Len(last.mapping) : last.mapping[i].suggested_module = UtilsModule
    /\ calls = 2
    /\ last.clusters.given /\ Len(last.clusters.val) = 2

\* the supplied clusters propose does not skip
KeptClusters ==
    SelectSeq(last.clusters.val,
              LAMBDA c : /\ Len(c.locations) >= 2
                         /\ last.same_name_only =>
                               \A j \in 1..Len(c.locations) :
                                   c.locations[j].name = c.locations[1].name)

\* C28: for every cluster list a caller supplies, the empty list included,
\* propose returns exactly one mapping entry, in the order of the list, for
\* each supplied cluster with at least two locations that is not skipped
\* (skipped: same_name_only is set and the names differ); the function of
\* an entry is the name of the first location, and the findings mirror the
\* mapping.
C28_MappingMirrorsSuppliedClusters ==
    last.op = "propose" /\ last.clusters.given =>
        /\ Len(last.mapping) = Len(KeptClusters)
        /\ Len(last.findings) = Len(last.mapping)
        /\ \A i \in 1..Len(last.mapping) :
              /\ last.mapping[i].function = NameOr(KeptClusters[i].locations[1])
              /\ last.mapping[i].from_scripts =
                     [j \in 1..Len(KeptClusters[i].locations) |->
                         KeptClusters[i].locations[j].script]
              /\ last.findings[i] = [type |-> "proposal", mapping |-> last.mapping[i]]

-----------------------------------------------------------------------------
(* The claims about the indexer and about repeated analysis *)

\* C16: analyze changes nothing in the repository, and called again with
\* the same arguments on the unmodified repository it returns the same
\* clusters in the same order, with the same locations in the same order.
C16_AnalyzeTwiceSame ==
    last.op = "analyze" =>
        /\ files = prev.files /\ dirs = prev.dirs
        /\ last.before # NoCall =>
              last.clusters = last.before.clusters /\ last.findings = last.before.findings

\* analyze has been called a second time, the scan coming across the
\* bundles in another order than the first time, and has returned a cluster
C16_Witness ==
    /\ last.op = "analyze" /\ last.before # NoCall
    /\ last.visited # last.before.visited
    /\ Len(last.clusters) >= 1
    /\ Len(last.clusters[1].locations) = 3

\* C17: scan marks a bundle with bundle_yaml = True exactly when a file
\* named bundle.yaml lies directly in its folder; it finds every bundle
\* folder reached from a scanned root; and the summary lists exactly the
\* paths of the bundles not so marked, with their number.
C17_BundleYamlFlag ==
    last.op = "scan" =>
        /\ {last.bundles[i].path : i \in 1..Len(last.bundles)}
              = {RelativeToRoot(b) : b \in BundleDirs(dirs)}
        /\ \A i \in 1..Len(last.bundles) :
              last.bundles[i].bundle_yaml = "True"
                  <=> Append(ScriptFile(last.bundles[i].path), BundleYaml) \in DOMAIN files
        /\ LET unmarked == SelectSeq(last.bundles, LAMBDA b : b.bundle_yaml # "True")
           IN  last.bundles_without_yaml = [i \in 1..Len(unmarked) |-> unmarked[i].path]
        /\ last.bundles_without_yaml_count = Len(last.bundles_without_yaml)

\* scan has found a bundle with a bundle.yaml file, a bundle whose
\* bundle.yaml is a directory, and a panel with a bundle.yaml inside a tab
\* without one
C17_Witness ==
    /\ last.op = "scan"
    /\ \E i, j \in 1..Len(last.bundles) :
          /\ last.bundles[i].bundle_yaml = "True"
          /\ last.bundles[j].bundle_yaml = "None"
          /\ Append(ScriptFile(last.bundles[j].path), BundleYaml) \in dirs
          /\ Len(last.bundles[i].path.parts) > 1
    /\ last.bundles_without_yaml_count = 2

-----------------------------------------------------------------------------
(* The claim about the modes of the tools *)

\* C1: every tool that takes a mode defaults it to dry_run, and a call that
\* does not pass mode "write" leaves the filesystem as it was.
C1_OnlyExplicitWriteChangesFiles ==
    last.op \in ModeTools =>
        /\ DefaultMode(last.op) = "dry_run"
        /\ last.args.mode # Given("write") => files = prev.files /\ dirs = prev.dirs

-----------------------------------------------------------------------------
(* The claims about the extraction engine *)

\* the last call was extract and it returned a result
Returned == last.op = "extract" /\ ~last.raised

\* the positions (0-based) of the clusters the last extract call processed:
\* those cluster_indices selects that have at least two locations
Processed ==
    {i \in 0..(Len(last.used) - 1) :
        /\ ~last.args.cluster_indices.given \/ i \in last.args.cluster_indices.val
        /\ Len(last.used[i + 1].locations) >= 2}

NamesOf(c) == {c.locations[i].name : i \in 1..Len(c.locations)}

\* the locations of c carry more than one function name
MixedNames(c) == Cardinality(NamesOf(c)) > 1 /\ NoName \notin NamesOf(c)

\* the errors of the last extract call about the cluster at position i
ErrorsAbout(i) == {j \in 1..Len(last.errors) : last.errors[j].idx = i}

\* the patch of the last extract call for library module mod
LibPatchesFor(mod) ==
    {j \in 1..Len(last.patches) : last.patches[j].path = ModuleRel(mod)}

\* C5: whenever extract removes a function definition from a script and
\* replaces it by an import, the library content produced for its cluster
\* holds a definition textually identical to the removed one.  Stated for
\* the clusters the detector itself finds.
C5_RemovedDefinitionIsInLibrary ==
    Returned /\ ~last.args.clusters.given =>
        \A j \in 1..Len(last.origin) :
            /\ last.origin[j].removed = last.origin[j].canonical
            /\ \E k \in LibPatchesFor(last.extracted[j].module) :
                  Contains(last.patches[k].content, last.origin[j].removed)

\* C6: for every processed cluster whose locations carry more than one
\* function name, extract emits no patch and no extracted entry, adds
\* nothing to a library module, and reports exactly one error, which names
\* the mismatched names.
C6_MixedNamesRejected ==
    Returned =>
        \A i \in Processed :
            MixedNames(last.used[i + 1]) =>
                /\ \A j \in 1..Len(last.origin) : last.origin[j].idx # i
                /\ \A j \in 1..Len(last.lib_origin) : last.lib_origin[j] # i
                /\ Cardinality(ErrorsAbout(i)) = 1
                /\ \A j \in ErrorsAbout(i) :
                      last.errors[j] =
                          ExtractError("mixed", i, NoPath, NamesOf(last.used[i + 1]))

\* a call that rejected a mixed-name cluster and extracted another cluster
C6_Witness ==
    /\ Returned
    /\ \E i \in Processed : MixedNames(last.used[i + 1])
    /\ Len(last.extracted) > 0
    /\ Len(last.patches) = Len(last.extracted) + 1

\* text parses and holds exactly one function definition, fn
HoldsOnly(text, fn) ==
    /\ Parses(text)
    /\ Len(FunctionDefs(text)) = 1
    /\ LET i == FunctionDefs(text)[1] IN SubSeq(text, i, EndLine(text, i)) = fn

\* the two scripts of repository fs each define fn and no other function
TwoCopiesOf(fs, fn) ==
    /\ HoldsOnly(fs.files[ScriptFile(Script1)], fn)
    /\ HoldsOnly(fs.files[ScriptFile(Script2)], fn)

LibModules == {UtilsModule, IoModule, UiModule}

\* repository fs has no library module yet
NoLibrary(fs) == \A mod \in LibModules : ScriptFile(ModuleRel(mod)) \notin DOMAIN fs.files

\* the function of scenario 1: def foo(a, b): return a+b
Foo == ShortFunction(NameF, 1)

\* the functions a script of the model may consist of
FunctionChoices ==
    {ShortFunction(n, v) : n \in {NameF, NameG}, v \in {1, 2}}
    \cup {LongFunction(n, v) : n \in {NameF, NameG}, v \in {1, 2}}

\* the last call was extract without a cluster list, in the given mode, on
\* every cluster or on the first one
ExtractsFirst(mode) ==
    /\ last.op = "extract"
    /\ ~last.args.clusters.given
    /\ last.args.mode = mode
    /\ ~last.args.cluster_indices.given \/ 0 \in last.args.cluster_indices.val

\* what scenario 1 expects of analyze and of extract in dry_run mode
Scenario1Outcome ==
    /\ last.op = "analyze" /\ last.same_name_only =>
          /\ Len(last.clusters) = 1
          /\ Len(last.clusters[1].locations) = 2
    /\ ExtractsFirst("dry_run") =>
          /\ ~last.raised
          /\ Len(last.patches) = 3
          /\ last.patches[1].summary = "Add"
          /\ last.patches[1].path \in {ModuleRel(mod) : mod \in LibModules}
          /\ last.patches[2].summary = "Edit" /\ last.patches[2].path = Script1
          /\ last.patches[3].summary = "Edit" /\ last.patches[3].path = Script2
          /\ Len(last.extracted) = 2
          /\ last.errors = <<>>
          /\ files = prev.files /\ dirs = prev.dirs

\* C7, as the specification states it: with def foo(a, b): return a+b in
\* two scanned files, analyze with same_name_only returns one cluster of 2
\* locations and extract in dry_run mode returns 1 add patch for the library
\* module, 2 edit patches for the scripts, 2 extracted entries and 0 errors.
C7_Scenario1WithFoo ==
    TwoCopiesOf(prev, Foo) /\ NoLibrary(prev) => Scenario1Outcome

\* C7, amended: the same with a function whose fingerprint has at least
\* MinBodyLen (20) characters in place of foo, whose fingerprint has 13.
C7_Scenario1Amended ==
    \A fn \in FunctionChoices :
        /\ StrLen(NormalizeAst(fn, 1)) >= MinBodyLen
        /\ TwoCopiesOf(prev, fn)
        /\ NoLibrary(prev)
        => Scenario1Outcome

\* extract in dry_run mode has run on two scripts holding the same long function
C7_Witness ==
    /\ ExtractsFirst("dry_run")
    /\ \E fn \in FunctionChoices :
          StrLen(NormalizeAst(fn, 1)) >= MinBodyLen /\ TwoCopiesOf(prev, fn)
    /\ NoLibrary(prev)
    /\ Len(last.patches) = 3

\* the lines of text that define a function called name
DefsNamed(text, name) == {i \in 1..Len(text) : text[i].k = "def" /\ text[i].n = name}

\* what scenario 2 expects of the repository after extract in write mode
\* moved function fn: some library module holds exactly one copy of it, and
\* each script has lost the definition and imports it from that module
Scenario2Outcome(fn) ==
    \E mod \in LibModules :
        LET lib == ScriptFile(ModuleRel(mod))
        IN  /\ lib \in DOMAIN files
            /\ Contains(files[lib], fn)
            /\ Cardinality(DefsNamed(files[lib], fn[1].n)) = 1
            /\ \A sp \in {Script1, Script2} :
                  /\ DefsNamed(files[ScriptFile(sp)], fn[1].n) = {}
                  /\ ImportLine(ModuleImport(mod), fn[1].n) \in Range(files[ScriptFile(sp)])

\* the library modules of repository fs hold no definition called name
NotInLibrary(fs, name) ==
    \A mod \in LibModules :
        ScriptFile(ModuleRel(mod)) \in DOMAIN fs.files =>
            DefsNamed(fs.files[ScriptFile(ModuleRel(mod))], name) = {}

\* C8, as the specification states it: after extract in write mode on a
\* repository whose two scripts define foo, the library module exists with
\* exactly one copy of foo, and both scripts lack the definition and import
\* it from the module.
C8_Scenario2WithFoo ==
    /\ ExtractsFirst("write")
    /\ TwoCopiesOf(prev, Foo)
    /\ NotInLibrary(prev, Foo[1].n)
    => Scenario2Outcome(Foo)

\* C8, amended: the same for a function whose fingerprint has at least
\* MinBodyLen (20) characters and that is the only function of each script.
C8_Scenario2Amended ==
    \A fn \in FunctionChoices :
        /\ ExtractsFirst("write")
        /\ StrLen(NormalizeAst(fn, 1)) >= MinBodyLen
        /\ TwoCopiesOf(prev, fn)
        /\ NotInLibrary(prev, fn[1].n)
        => ~last.raised /\ Scenario2Outcome(fn)

\* extract in write mode has moved a long function of two scripts that also
\* hold other lines into a library module that existed before
C8_Witness ==
    /\ ExtractsFirst("write")
    /\ \E fn \in FunctionChoices :
          /\ StrLen(NormalizeAst(fn, 1)) >= MinBodyLen
          /\ TwoCopiesOf(prev, fn)
          /\ NotInLibrary(prev, fn[1].n)
          /\ Len(prev.files[ScriptFile(Script1)]) > Len(fn)
    /\ ~NoLibrary(prev)
    /\ files # prev.files

\* C9: once extract in write mode, without a cluster list, has returned, the
\* same call on the resulting repository finds no cluster, produces no patch
\* and no extracted entry, and changes no file.
C9_SecondExtractFindsNothing ==
    /\ last.op = "extract"
    /\ last.prior = "returned"
    /\ ~last.args.clusters.given
    /\ ~last.args.cluster_indices.given
    /\ last.args.same_name_only
    /\ last.args.mode = "write"
    => /\ ~last.raised
       /\ last.used = <<>>
       /\ last.patches = <<>>
       /\ last.extracted = <<>>
       /\ files = prev.files /\ dirs = prev.dirs

\* cluster c has a problem of its own in repository fs: mixed names, a
\* location without script, line or name, or a first location whose function
\* is not found in the script
LocalProblem(fs, c) ==
    \/ Cardinality(NamesOf(c)) > 1
    \/ \E i \in 1..Len(c.locations) :
          \/ c.locations[i].script = NoPath
          \/ c.locations[i].line = NoLine
          \/ c.locations[i].name = NoName
    \/ GetFunctionSource(fs.files, ScriptFile(c.locations[1].script),
                         c.locations[1].name, c.locations[1].line) = <<>>

\* what extract returns for the cluster list cs in repository fs
Dry(fs, cs) == Extract(fs.files, fs.dirs, Given(cs), NotGiven, "dry_run", TRUE)

\* C10: for a cluster list the caller passes, extract returns a result; every
\* cluster with a problem of its own has an entry in errors, and the patches
\* and extracted entries are those of the list without these clusters.
C10_BadClusterOnlyAddsError ==
    last.op = "extract" /\ last.args.clusters.given =>
        /\ ~last.raised
        /\ \A i \in Processed : LocalProblem(prev, last.used[i + 1]) => ErrorsAbout(i) # {}
        /\ LET rest == SelectSeq(last.used, LAMBDA c : ~LocalProblem(prev, c))
           IN  /\ last.patches = Dry(prev, rest).patches
               /\ last.extracted = Dry(prev, rest).extracted

\* the fingerprint of a function given as its lines
FingerprintOf(fn) == HashBody(NormalizeAst(fn, 1))

\* what the last extract call took as the source of the cluster at position
\* i: the function at its first location, as the script held it
CanonicalOf(i) ==
    LET first == last.used[i + 1].locations[1]
    IN  GetFunctionSource(prev.files, ScriptFile(first.script), NameOr(first), first.line)

\* C18: extract in write mode never removes from a script, nor copies into
\* a library module, a function whose fingerprint is not the fingerprint of
\* the cluster it was detected in.
C18_StaleFunctionNotExtracted ==
    Returned /\ last.args.mode = "write" =>
        /\ \A j \in 1..Len(last.origin) :
              FingerprintOf(last.origin[j].removed) = last.used[last.origin[j].idx + 1].hash
        /\ \A j \in 1..Len(last.lib_origin) :
              FingerprintOf(CanonicalOf(last.lib_origin[j]))
                  = last.used[last.lib_origin[j] + 1].hash

\* no function called loc.name starts at line loc.line of the script of
\* loc in repository fs, or the script cannot be read or parsed
SpanMissing(fs, loc) ==
    LET p == ScriptFile(loc.script)
    IN  \/ p \notin DOMAIN fs.files
        \/ ~Parses(fs.files[p])
        \/ loc.line \notin 1..Len(fs.files[p])
        \/ fs.files[p][loc.line].k # "def"
        \/ fs.files[p][loc.line].n # loc.name

C20_ExtractedEntriesTrueOnDisk ==
    Returned /\ last.args.mode = "write" =>
        \A j \in 1..Len(last.extracted) :
            LET e    == last.extracted[j]
                text == files[ScriptFile(e.script)]
            IN  /\ ~Contains(text, last.origin[j].removed)
                /\ ImportLine(ModuleImport(e.module), e.function) \in Range(text)

\* the number of library patches of the last extract call: they come first
LibPatchCount == Len(last.patches) - Len(last.extracted)

\* the patch of the last extract call that edits the script of extracted[j]
ScriptPatch(j) == last.patches[LibPatchCount + j]

\* the dotted names of the library modules
LibImports == {ModuleImport(mod) : mod \in LibModules}

\* C21: extract puts the source of every cluster it extracts into the
\* module the proposer's rule gives the cluster's own script paths, and
\* names that module in the extracted entries and in the imports of the
\* function in the edited scripts.
C21_ClusterGoesToItsOwnModule ==
    Returned =>
        \A j \in 1..Len(last.origin) :
            LET c   == last.used[last.origin[j].idx + 1]
                own == SuggestedModule(c.locations)
                e   == last.extracted[j]
            IN  /\ e.module = own
                /\ \E k \in LibPatchesFor(own) :
                      Contains(last.patches[k].content, last.origin[j].canonical)
                /\ \A l \in Range(ScriptPatch(j).content) :
                      l.k = "import" /\ l.n = e.function /\ l.m \in LibImports
                          => l.m = ModuleImport(own)

\* the location of extracted[j] in its cluster
LocationOf(j) ==
    LET c == last.used[last.origin[j].idx + 1]
    IN  CHOOSE l \in Range(c.locations) :
            l.script = last.extracted[j].script /\ l.name = last.extracted[j].function

\* the script of extracted[j] as it was, without the lines removed from it
StrippedOf(j) ==
    LET text == prev.files[ScriptFile(last.extracted[j].script)]
        line == LocationOf(j).line
    IN  SubSeq(text, 1, line - 1)
        \o SubSeq(text, line + Len(last.origin[j].removed), Len(text))

\* the number of import lines the text starts with
TopImports(text) ==
    Cardinality({k \in 1..Len(text) : \A i \in 1..k : text[i].k = "import" /\ text[i].ind = 0})

\* text with line k left out
WithoutLine(text, k) == SubSeq(text, 1, k - 1) \o SubSeq(text, k + 1, Len(text))

\* C22: for every location where removing the function changed the text,
\* the rewritten script holds the import of the function from the target
\* module: right after the last import line at the top of the file, as the
\* first line when the file has no import line there, and not added only
\* when the very same import is already in the file.
C22_ImportInRewrittenScript ==
    Returned =>
        \A j \in 1..Len(last.extracted) :
            LET e        == last.extracted[j]
                imp      == ImportLine(ModuleImport(e.module), e.function)
                content  == ScriptPatch(j).content
                stripped == StrippedOf(j)
                at       == TopImports(stripped) + 1
            IN  IF imp \in Range(stripped) THEN content = stripped
                ELSE /\ Len(content) = Len(stripped) + 1
                     /\ content[at] = imp
                     /\ WithoutLine(content, at) = stripped

\* the imports of text are all at its top and none of them is a longer
\* import from a library module
PlainImports(text) ==
    \A i \in 1..Len(text) :
        text[i].k = "import" => i <= TopImports(text) /\ text[i].m \notin LibImports

\* patch p creates or edits a library module
IsLibPatch(p) == \E mod \in LibModules : p.path = ModuleRel(mod)

\* the imports from library modules that script patch p adds to its script
InjectedImports(p) ==
    {l \in Range(p.content) :
        /\ l.k = "import" /\ l.m \in LibImports
        /\ l \notin Range(prev.files[ScriptFile(p.path)])}

\* the module file that import line l imports from is a file of repository fs
ImportedModuleExists(fs, l) ==
    \E mod \in LibModules :
        ModuleImport(mod) = l.m /\ ScriptFile(ModuleRel(mod)) \in DOMAIN fs

\* C25: in the patch list extract returns every library patch comes before
\* every script patch, and while the list is applied in write mode, one
\* patch after the other, no script with an injected import is written
\* before the module it imports from exists.
C25_LibraryPatchesFirst ==
    Returned =>
        /\ \A i, j \in 1..Len(last.patches) :
              IsLibPatch(last.patches[i]) /\ ~IsLibPatch(last.patches[j]) => i < j
        /\ last.args.mode = "write" =>
              \A k \in 1..Len(last.patches) :
                  ~IsLibPatch(last.patches[k]) =>
                      \A l \in InjectedImports(last.patches[k]) :
                          ImportedModuleExists(
                              ApplyPatches(prev.files, prev.dirs,
                                           SubSeq(last.patches, 1, k), "write").files, l)

\* extract in write mode has created a library module and edited two scripts
C25_Witness ==
    /\ Returned /\ last.args.mode = "write"
    /\ Len(last.extracted) >= 2
    /\ \E k \in 1..Len(last.patches) :
          /\ IsLibPatch(last.patches[k])
          /\ ScriptFile(last.patches[k].path) \notin DOMAIN prev.files
          /\ ScriptFile(last.patches[k].path) \in DOMAIN files
    /\ \E k \in 1..Len(last.patches) :
          ~IsLibPatch(last.patches[k]) /\ InjectedImports(last.patches[k]) # {}

\* the first extracted entry that comes from the cluster at position i
EntryOf(i) == CHOOSE j \in 1..Len(last.origin) : last.origin[j].idx = i

\* the positions of the clusters whose source went into module mod, in the
\* order in which they were processed
ClustersInto(mod) ==
    SelectSeq(last.lib_origin, LAMBDA i : last.extracted[EntryOf(i)].module = mod)

RECURSIVE SourcesJoined(_)
\* the sources of the clusters at the positions in `is`, an empty line
\* between two of them
SourcesJoined(is) ==
    IF is = <<>> THEN <<>>
    ELSE last.origin[EntryOf(Head(is))].canonical
         \o (IF Tail(is) = <<>> THEN <<>> ELSE <<BlankLine>> \o SourcesJoined(Tail(is)))

\* text up to its last line that is not empty
WithoutTrailingBlanks(text) ==
    SubSeq(text, 1, Cardinality({k \in 1..Len(text) :
                                    \E i \in k..Len(text) : text[i].k # "blank"}))

\* C26: extract emits exactly one library patch for every module that got
\* a source, and none for the others.  When the module is a file already,
\* the patch is an edit patch of risk medium whose content is what the
\* file holds (up to its trailing empty lines), an empty line, and the new
\* sources with an empty line between them; otherwise it is an add patch
\* of risk medium that holds the new sources only.
C26_OneLibraryPatchPerModule ==
    Returned =>
        \A mod \in LibModules :
            LET is  == ClustersInto(mod)
                p   == ScriptFile(ModuleRel(mod))
                new == SourcesJoined(is)
            IN  IF is = <<>> THEN LibPatchesFor(mod) = {}
                ELSE /\ Cardinality(LibPatchesFor(mod)) = 1
                     /\ \A k \in LibPatchesFor(mod) :
                           /\ last.patches[k].risk = "medium"
                           /\ IF p \in DOMAIN prev.files
                              THEN /\ last.patches[k].summary = "Edit"
                                   /\ last.patches[k].content =
                                          WithoutTrailingBlanks(prev.files[p])
                                          \o <<BlankLine>> \o new
                              ELSE /\ last.patches[k].summary = "Add"
                                   /\ last.patches[k].content = new

\* extract has returned an edit patch for lib/utils.py, which held an
\* assignment and two empty lines, with the sources of two clusters
C26_Witness ==
    /\ Returned
    /\ ScriptFile(ModuleRel(UtilsModule)) \in DOMAIN prev.files
    /\ Len(ClustersInto(UtilsModule)) = 2
    /\ \A k \in LibPatchesFor(UtilsModule) : last.patches[k].summary = "Edit"

\* extract has returned an add patch for lib/ui.py and an edit patch for
\* lib/utils.py in one call
C26_TwoModulesWitness ==
    /\ Returned
    /\ ClustersInto(UtilsModule) # <<>> /\ ClustersInto(UiModule) # <<>>
    /\ ScriptFile(ModuleRel(UtilsModule)) \in DOMAIN prev.files

\* the clusters analyze_duplicates returns for the repository the last call
\* started from, when called with its default arguments: every script,
\* limit 0 (no limit), same_name_only False
DefaultAnalyzed == Analyze(prev.files, prev.dirs, <<>>, NotGiven, FALSE).clusters

\* the last call was extract_to_lib with its default arguments and a list of
\* cluster indices: clusters omitted, mode dry_run, same_name_only True
DefaultExtract ==
    /\ Returned
    /\ ~last.args.clusters.given
    /\ last.args.cluster_indices.given
    /\ last.args.mode = "dry_run"
    /\ last.args.same_name_only

\* C30: on an unchanged repository, a cluster index taken from the result of
\* analyze_duplicates called with its default arguments selects the same
\* cluster when passed in cluster_indices to extract_to_lib called with its
\* default arguments; the clusters at positions that are not listed
\* contribute no patch, extracted entry or error.
C30_IndexSelectsSameCluster ==
    DefaultExtract =>
        /\ \A i \in last.args.cluster_indices.val :
              i < Len(DefaultAnalyzed) =>
                  /\ i < Len(last.used)
                  /\ last.used[i + 1] = DefaultAnalyzed[i + 1]
        /\ \A i \in 0..(Len(last.used) - 1) :
              i \notin last.args.cluster_indices.val =>
                  /\ \A j \in 1..Len(last.origin) : last.origin[j].idx # i
                  /\ \A j \in 1..Len(last.lib_origin) : last.lib_origin[j] # i
                  /\ ErrorsAbout(i) = {}

-----------------------------------------------------------------------------
(* The claims about the duplicate detector *)

\* the scripts the last analyze call read, in the order it read them
Scanned ==
    IF last.script_paths = <<>> THEN PyFiles(prev.files, prev.dirs) ELSE last.script_paths

\* the functions of the scripts in paths that can be read and parsed, each
\* as the script and the line it starts at
FunctionsOf(fs, paths) ==
    UNION {{[script |-> paths[i], line |-> r.line] :
               r \in Range(ExtractFunctions(fs.files, ScriptFile(paths[i])))} :
           i \in 1..Len(paths)}

\* the fingerprint and the name of function fn ([script, line]) in repository fs
Fingerprint(fs, fn) == NormalizeAst(fs.files[ScriptFile(fn.script)], fn.line)
NameIn(fs, fn) == fs.files[ScriptFile(fn.script)][fn.line].n

\* cluster c has a location at function fn
HasLocation(c, fn) ==
    \E k \in 1..Len(c.locations) :
        c.locations[k].script = fn.script /\ c.locations[k].line = fn.line

\* the last analyze call put functions a and b into one cluster
Together(a, b) ==
    \E i \in 1..Len(last.clusters) :
        HasLocation(last.clusters[i], a) /\ HasLocation(last.clusters[i], b)

\* the pairs of scanned functions with the same skeleton and different names
SameSkeletonPairs ==
    {pair \in FunctionsOf(prev, Scanned) \X FunctionsOf(prev, Scanned) :
        /\ Fingerprint(prev, pair[1]) = Fingerprint(prev, pair[2])
        /\ NameIn(prev, pair[1]) # NameIn(prev, pair[2])}

\* C11, as the specification states it: two functions with the same
\* skeleton and different names are in one cluster when same_name_only is
\* false, and never in one cluster when it is true.
C11_SameSkeletonClustersByName ==
    last.op = "analyze" =>
        \A pair \in SameSkeletonPairs :
            IF last.same_name_only THEN ~Together(pair[1], pair[2])
            ELSE Together(pair[1], pair[2])

\* C11, amended: the same for functions whose fingerprint has at least
\* MinBodyLen (20) characters, when analyze is called without a limit;
\* shorter functions are in no cluster at all.
C11_LongSkeletonClustersByName ==
    last.op = "analyze" =>
        \A pair \in SameSkeletonPairs :
            IF last.same_name_only \/ StrLen(Fingerprint(prev, pair[1])) < MinBodyLen
            THEN ~Together(pair[1], pair[2])
            ELSE ~last.limit.given => Together(pair[1], pair[2])

\* analyze, with same_name_only false, has put two functions of different
\* names into one cluster
C11_Witness ==
    /\ last.op = "analyze" /\ ~last.same_name_only /\ ~last.limit.given
    /\ \E pair \in SameSkeletonPairs :
          /\ StrLen(Fingerprint(prev, pair[1])) >= MinBodyLen
          /\ Together(pair[1], pair[2])

\* C12: every cluster analyze returns has at least 2 locations; its
\* locations are functions of the scanned scripts with the cluster's
\* fingerprint and, under same_name_only, one name; and no function is a
\* location of two clusters.
C12_ClustersPartitionByKey ==
    last.op = "analyze" =>
        /\ \A i \in 1..Len(last.clusters) :
              LET c == last.clusters[i]
              IN  /\ Len(c.locations) >= 2
                  /\ \A k \in 1..Len(c.locations) :
                        LET fn == [script |-> c.locations[k].script,
                                   line |-> c.locations[k].line]
                        IN  /\ fn \in FunctionsOf(prev, Scanned)
                            /\ HashBody(Fingerprint(prev, fn)) = c.hash
                            /\ NameIn(prev, fn) = c.locations[k].name
                            /\ last.same_name_only =>
                                  c.locations[k].name = c.locations[1].name
        /\ \A i, j \in 1..Len(last.clusters) :
              i # j => ~\E fn \in FunctionsOf(prev, Scanned) :
                          HasLocation(last.clusters[i], fn) /\ HasLocation(last.clusters[j], fn)

\* analyze, with same_name_only, has returned two clusters over the same scripts
C12_Witness ==
    /\ last.op = "analyze" /\ last.same_name_only
    /\ Len(last.clusters) = 2
    /\ last.clusters[1].locations[1].script = last.clusters[2].locations[1].script

\* the clustering key of scanned function fn in the last analyze call
KeyOf(fn) ==
    IF last.same_name_only THEN <<Fingerprint(prev, fn), NameIn(prev, fn)>>
    ELSE <<Fingerprint(prev, fn)>>

\* the scanned functions whose fingerprint has at least 20 characters
LongEnough == {fn \in FunctionsOf(prev, Scanned) : StrLen(Fingerprint(prev, fn)) >= 20}

\* the scanned functions that share the key of fn, fn included
GroupOf(fn) == {gn \in LongEnough : KeyOf(gn) = KeyOf(fn)}

InSomeCluster(fn) == \E i \in 1..Len(last.clusters) : HasLocation(last.clusters[i], fn)

\* the call had no limit, or one that is not positive
Unlimited == ~(last.limit.given /\ last.limit.val > 0)

\* C23: no function whose fingerprint is shorter than 20 characters is in a
\* cluster analyze returns; without a limit, every function with a
\* fingerprint of 20 characters or more that shares its key with another
\* such function is in a cluster.
C23_ThresholdOnFingerprint ==
    last.op = "analyze" =>
        \A fn \in FunctionsOf(prev, Scanned) :
            IF fn \notin LongEnough THEN ~InSomeCluster(fn)
            ELSE Unlimited /\ GroupOf(fn) # {fn} => InSomeCluster(fn)

\* analyze, without a limit, has returned no cluster for two short
\* functions with one key
C23_Witness ==
    /\ last.op = "analyze" /\ ~last.limit.given
    /\ last.clusters = <<>>
    /\ \E fn, gn \in FunctionsOf(prev, Scanned) \ LongEnough :
          fn # gn /\ KeyOf(fn) = KeyOf(gn)

\* function a comes before function b in the scan
Precedes(a, b) ==
    LET ia == IndexOf(Scanned, a.script)
        ib == IndexOf(Scanned, b.script)
    IN  ia < ib \/ (ia = ib /\ a.line < b.line)

\* the groups of scanned functions that make a cluster: two or more with one key
Groups == {GroupOf(fn) : fn \in {gn \in LongEnough : GroupOf(gn) # {gn}}}

\* the first function of group G in the scan
FirstIn(G) == CHOOSE fn \in G : \A gn \in G \ {fn} : Precedes(fn, gn)

\* group G comes before group H in the order of the result: it is larger,
\* or as large and discovered earlier
Ahead(G, H) ==
    \/ Cardinality(G) > Cardinality(H)
    \/ Cardinality(G) = Cardinality(H) /\ Precedes(FirstIn(G), FirstIn(H))

\* the scanned functions that are locations of cluster i of the last analyze call
GroupAt(i) == {fn \in LongEnough : HasLocation(last.clusters[i], fn)}

\* C24: the clusters analyze returns are in non-increasing order of
\* location count, clusters of equal count in the order in which their
\* first locations were scanned; with a limit n > 0 they are the first n of
\* that order, without a limit or with one that is not positive they are
\* all of them; the findings mirror the clusters one to one.
C24_SortedThenTruncated ==
    last.op = "analyze" =>
        LET n == Len(last.clusters)
        IN  /\ \A i \in 1..n :
                  /\ GroupAt(i) \in Groups
                  /\ Len(last.clusters[i].locations) = Cardinality(GroupAt(i))
            /\ \A i, j \in 1..n : i < j => Ahead(GroupAt(i), GroupAt(j))
            /\ \A G \in Groups \ {GroupAt(i) : i \in 1..n} :
                  \A i \in 1..n : Ahead(GroupAt(i), G)
            /\ n = IF Unlimited \/ last.limit.val > Cardinality(Groups)
                   THEN Cardinality(Groups) ELSE last.limit.val
            /\ Len(last.findings) = n
            /\ \A i \in 1..n :
                  last.findings[i] =
                      [type |-> "duplicate", cluster |-> last.clusters[i],
                       count |-> Len(last.clusters[i].locations)]

\* analyze with limit 1 has returned the cluster of three locations and
\* left out the cluster of two that it discovered first
C24_Witness ==
    /\ last.op = "analyze" /\ last.limit = Given(1)
    /\ Len(last.clusters) = 1 /\ Len(last.clusters[1].locations) = 3
    /\ \E G \in Groups : G # GroupAt(1) /\ Precedes(FirstIn(G), FirstIn(GroupAt(1)))

\* analyze with limit 1 has returned the first discovered of two clusters
\* of two locations each
C24_TieWitness ==
    /\ last.op = "analyze" /\ last.limit = Given(1)
    /\ Len(last.clusters) = 1
    /\ \E G \in Groups : G # GroupAt(1) /\ Cardinality(G) = Cardinality(GroupAt(1))

\* the scanned script at sp could not be read as a script in the last
\* analyze call: it is no file, its text has no valid syntax, or the parser
\* gave up on it
Malformed(sp) ==
    LET p == ScriptFile(sp)
    IN  \/ p \notin DOMAIN prev.files
        \/ \E i \in 1..Len(prev.files[p]) : prev.files[p][i].k \in {"bad", "raw"}
        \/ last.overflow /\ \E i \in 1..Len(prev.files[p]) : prev.files[p][i].k = "deep"

\* C29: analyze never fails because of a malformed or unreadable file:
\* such a file gives no location to any cluster, and the clusters are
\* those analyze forms from the other scanned files alone.
C29_MalformedFileIsSkipped ==
    last.op = "analyze" =>
        /\ ~last.raised
        /\ \A i \in 1..Len(last.clusters) :
              \A k \in 1..Len(last.clusters[i].locations) :
                  ~Malformed(last.clusters[i].locations[k].script)
        /\ last.clusters =
              Analyze(prev.files, prev.dirs, SelectSeq(Scanned, LAMBDA sp : ~Malformed(sp)),
                      last.limit, last.same_name_only).clusters

-----------------------------------------------------------------------------
(* The claims about the patch engine *)

IsCreateCall == last.op \in {"create_add_file_patch", "create_edit_patch"}

\* the file or directory a relative path names
Target(rel) == Resolve(Join(Root, rel))

\* C2: create_add_file_patch and create_edit_patch return a patch exactly
\* when rel_path resolves to a strict descendant of the repository root, and
\* fail for every other rel_path.
C2_PatchOnlyForStrictDescendant ==
    IsCreateCall => (~last.raised <=> StrictlyInside(Target(last.rel)))

\* the positions of the patches of the last apply_patches call that carry a path
WithPath == {i \in 1..Len(last.patches) : last.patches[i].path # NoPath}

\* everything at or below p that is on disk in filesystem (f, d)
Below(f, d, p) == {q \in d \cup DOMAIN f : Len(q) >= Len(p) /\ SubSeq(q, 1, Len(p)) = p}

\* nothing outside the repository root was created or written by the last call
OutsideUntouched ==
    /\ \A q \in dirs \ prev.dirs : InsideOrRoot(q)
    /\ \A q \in DOMAIN files :
          ~InsideOrRoot(q) => q \in DOMAIN prev.files /\ files[q] = prev.files[q]

\* C3: apply_patches reports every patch whose path resolves outside the
\* repository root in errors and not in applied, in every mode, and in
\* write mode creates or overwrites nothing outside the repository root.
C3_OutsidePatchesRejected ==
    last.op = "apply_patches" =>
        /\ OutsideUntouched
        /\ ~last.raised =>
              \A i \in WithPath :
                 ~InsideOrRoot(Target(last.patches[i].path)) =>
                    /\ \E j \in 1..Len(last.errors) : last.errors[j].path = last.patches[i].path
                    /\ \A j \in 1..Len(last.applied) :
                          last.applied[j].path # last.patches[i].path

\* C4: apply_patches never raises because of one bad patch: every patch of
\* the list is processed, in order, and ends up in exactly one of applied
\* and errors.
C4_EveryPatchAppliedOrReported ==
    last.op = "apply_patches" =>
        /\ ~last.raised
        /\ Len(last.applied) + Len(last.errors) = Len(last.patches)

\* the patches of the last apply_patches call whose path lies in the
\* repository root, in list order
InRootPatches ==
    SelectSeq(last.patches, LAMBDA p : InsideOrRoot(Target(p.path)))

\* C13: in every mode other than write, apply_patches creates and writes
\* nothing, and the call that returns reports each patch whose path lies in
\* the root, in list order, as its path with the dry-run marker.
C13_DryRunWritesNothing ==
    last.op = "apply_patches" /\ last.mode # "write" =>
        /\ files = prev.files /\ dirs = prev.dirs
        /\ ~last.raised =>
              SelectSeq(last.applied, LAMBDA a : InsideOrRoot(Target(a.path)))
                  = [i \in 1..Len(InRootPatches) |->
                        [path |-> InRootPatches[i].path, dry |-> TRUE]]

\* apply_patches, in a mode that is neither dry_run nor write, has reported
\* two patches in the root and rejected none
C13_Witness ==
    /\ last.op = "apply_patches" /\ last.mode = "commit" /\ ~last.raised
    /\ Len(InRootPatches) = 2
    /\ Len(last.applied) = 2
    /\ InRootPatches[1].path # InRootPatches[2].path

\* the lines a diff marks as added: those it prefixes with "+"
MarkedAdded(diff) ==
    LET added == SelectSeq(diff, LAMBDA d : d.mark = "+")
    IN  [i \in 1..Len(added) |-> added[i].line]

\* the positions of the patches of the last call that lie in the root and
\* are the last of the list for their file
LastForFile ==
    {i \in 1..Len(last.patches) :
        /\ InsideOrRoot(Target(last.patches[i].path))
        /\ \A j \in (i + 1)..Len(last.patches) :
              Target(last.patches[j].path) # Target(last.patches[i].path)}

\* C14: after apply_patches in write mode has processed a patch in the
\* root, the file at its path holds the patch's content when it has one, and
\* otherwise every line its diff marks as added, in order.
C14_WrittenFileHoldsPatch ==
    last.op = "apply_patches" /\ last.mode = "write" /\ ~last.raised =>
        \A i \in LastForFile :
            LET p == last.patches[i]
            IN  /\ Target(p.path) \in DOMAIN files
                /\ Parent(Target(p.path)) \in dirs
                /\ files[Target(p.path)] =
                      IF p.content # NoContent THEN p.content ELSE MarkedAdded(p.diff)

\* C15: when the same patch list is applied in write mode a second time,
\* every file and directory is as the first call left it, and the second
\* call returns the applied and errors lists the first one returned (or
\* raises as the first one did).
C15_SecondApplyChangesNothing ==
    last.op = "apply_patches" /\ last.mode = "write" /\ last.before # NoCall =>
        /\ files = prev.files /\ dirs = prev.dirs
        /\ last.raised = last.before.raised
        /\ ~last.raised =>
              last.applied = last.before.applied /\ last.errors = last.before.errors

\* a list with a patch that is written and a patch that is rejected has
\* been applied in write mode a second time
C15_Witness ==
    /\ last.op = "apply_patches" /\ last.mode = "write" /\ last.before # NoCall
    /\ ~last.raised
    /\ \E j \in 1..Len(last.applied) : Target(last.applied[j].path) \notin DOMAIN PatchInitFiles
    /\ last.errors # <<>>

====
